---- MODULE Spec2Model ----
(***************************************************************************)
(* A model of the MOOG simulation kernel (src/moog): the Physics           *)
(* orchestrator and its Newtonian forces, the Collision force, and the     *)
(* Sprite body with its cached path.                                       *)
(*                                                                         *)
(* Numbers.  The program computes in IEEE doubles.  The model computes in  *)
(* exact rationals extended with +inf, -inf and NaN, so that the           *)
(* non-finite cases the code guards against (infinite mass, 0/0, inf*0)    *)
(* take the values numpy gives them; rounding error is not modelled.       *)
(* A number is a pair <<n, d>>: d > 0 is the reduced fraction n/d,         *)
(* <<1,0>> is +inf, <<-1,0>> is -inf and <<0,0>> is NaN.                    *)
(***************************************************************************)
EXTENDS Integers, Sequences, FiniteSets, TLC

\* F applied to the value of e: e is evaluated once, where a definition of
\* LET would be evaluated again at each of its uses.
With(e, F(_)) == CHOOSE r \in {F(v) : v \in {e}} : TRUE

(***************************************************************************)
(* Extended rational arithmetic                                            *)
(***************************************************************************)
Abs(x) == IF x < 0 THEN -x ELSE x

Sgn(x) == IF x < 0 THEN -1 ELSE IF x > 0 THEN 1 ELSE 0

RECURSIVE Gcd(_, _)
Gcd(a, b) == IF b = 0 THEN a ELSE Gcd(b, a % b)

\* The number n/d in lowest terms; a zero denominator gives inf, -inf or NaN.
Q(n, d) ==
    IF d = 0 THEN <<Sgn(n), 0>>
    ELSE LET g == Gcd(Abs(n), Abs(d))
             s == Sgn(d)
         IN  <<(s * n) \div g, (s * d) \div g>>

I(n) == <<n, 1>>

NaN == <<0, 0>>

Inf == <<1, 0>>

NegInf == <<-1, 0>>

Zero == <<0, 1>>

One == <<1, 1>>

IsNaN(a) == a = NaN

\* np.isfinite
IsFinite(a) == a[2] # 0

Neg(a) == <<-a[1], a[2]>>

\* a + b; the denominators are reduced by their gcd first to keep the
\* intermediate products small.
Add(a, b) ==
    IF IsFinite(a) /\ IsFinite(b)
    THEN LET g == Gcd(a[2], b[2])
         IN  Q(a[1] * (b[2] \div g) + b[1] * (a[2] \div g), (a[2] \div g) * b[2])
    ELSE IF IsNaN(a) \/ IsNaN(b) THEN NaN
    ELSE IF IsFinite(a) THEN b
    ELSE IF IsFinite(b) THEN a
    ELSE IF a = b THEN a ELSE NaN

Sub(a, b) == Add(a, Neg(b))

\* a * b, cross-cancelled before multiplying; inf * 0 is NaN.
Mul(a, b) ==
    IF IsFinite(a) /\ IsFinite(b)
    THEN LET g1 == Gcd(Abs(a[1]), b[2])
             g2 == Gcd(Abs(b[1]), a[2])
         IN  Q((a[1] \div g1) * (b[1] \div g2), (a[2] \div g2) * (b[2] \div g1))
    ELSE <<Sgn(a[1] * b[1]), 0>>

\* 1 / a with numpy's conventions: 1/0 = inf, 1/inf = 0.
Inv(a) ==
    IF IsNaN(a) THEN NaN
    ELSE IF ~IsFinite(a) THEN Zero
    ELSE IF a[1] = 0 THEN Inf
    ELSE <<Sgn(a[1]) * a[2], Abs(a[1])>>

Div(a, b) == Mul(a, Inv(b))

\* a < b; every comparison with NaN is false.
Lt(a, b) ==
    IF IsNaN(a) \/ IsNaN(b) THEN FALSE
    ELSE IF IsFinite(a) /\ IsFinite(b)
    THEN LET g == Gcd(a[2], b[2])
         IN  a[1] * (b[2] \div g) < b[1] * (a[2] \div g)
    ELSE IF a = b THEN FALSE
    ELSE a = NegInf \/ b = Inf

Gt(a, b) == Lt(b, a)

Le(a, b) == ~IsNaN(a) /\ ~IsNaN(b) /\ ~Lt(b, a)

Ge(a, b) == Le(b, a)

\* Python/numpy ==: NaN is not equal to itself.
NumEq(a, b) == ~IsNaN(a) /\ a = b

AbsQ(a) == <<Abs(a[1]), a[2]>>

(***************************************************************************)
(* 2-vectors (numpy arrays of shape [2])                                   *)
(***************************************************************************)
V(x, y) == <<I(x), I(y)>>

VZero == <<Zero, Zero>>

VAdd(u, v) == <<Add(u[1], v[1]), Add(u[2], v[2])>>

VSub(u, v) == <<Sub(u[1], v[1]), Sub(u[2], v[2])>>

VScale(k, v) == <<Mul(k, v[1]), Mul(k, v[2])>>

VDiv(v, k) == <<Div(v[1], k), Div(v[2], k)>>

Dot(u, v) == Add(Mul(u[1], v[1]), Mul(u[2], v[2]))

\* np.cross of two 2-vectors
Cross(u, v) == Sub(Mul(u[1], v[2]), Mul(u[2], v[1]))

VFinite(v) == IsFinite(v[1]) /\ IsFinite(v[2])

\* The exact square root of a perfect square.  The model only takes norms
\* of vectors whose norm is rational; any other makes TLC stop with an
\* error instead of computing with a rounded value.
Root(n) == CHOOSE r \in 0..n : r * r = n

\* np.linalg.norm of a 2-vector
Norm(v) ==
    IF IsNaN(v[1]) \/ IsNaN(v[2]) THEN NaN
    ELSE IF ~VFinite(v) THEN Inf
    ELSE IF v[1][1] = 0 THEN AbsQ(v[2])
    ELSE IF v[2][1] = 0 THEN AbsQ(v[1])
    ELSE LET sq == Dot(v, v) IN <<Root(sq[1]), Root(sq[2])>>

(***************************************************************************)
(* Sprite (src/moog/sprite.py).  A sprite is a record; the fields the      *)
(* physics reads are position, velocity, angle_vel, mass, xy_inertia       *)
(* (Sprite._x_y_rotational_inertia) and path (the vertices of the cached   *)
(* transformed polygon, Sprite.vertices).                                  *)
(***************************************************************************)
TranslatePath(path, d) == [i \in 1..Len(path) |-> VAdd(path[i], d)]

\* Sprite.position setter for a fresh value object: the cached path is
\* translated by pos - self._position, then the position is stored.
SetPosition(s, pos) ==
    [s EXCEPT !.path = TranslatePath(s.path, VSub(pos, s.position)),
              !.position = pos]

\* An angle is <<a, k>>: a radians plus k quarter turns (k * pi / 2), so
\* that the rotations by multiples of a right angle are exact.
Angle(a, k) == <<a, k>>
AngleAdd(x, y) == <<Add(x[1], y[1]), x[2] + y[2]>>
AngleSub(x, y) == <<Sub(x[1], y[1]), x[2] - y[2]>>

\* (cos, sin) of an angle; defined for the multiples of a right angle and
\* for NaN, of which the cosine and the sine are NaN
CosSin(x) ==
    CASE x[1] = Zero /\ x[2] % 4 = 0 -> <<One, Zero>>
      [] x[1] = Zero /\ x[2] % 4 = 1 -> <<Zero, One>>
      [] x[1] = Zero /\ x[2] % 4 = 2 -> <<I(-1), Zero>>
      [] x[1] = Zero /\ x[2] % 4 = 3 -> <<Zero, I(-1)>>
      [] IsNaN(x[1]) -> <<NaN, NaN>>

\* Affine2D().rotate(theta) applied to a point
Rotate(v, theta) ==
    LET cs == CosSin(theta)
    IN  <<Sub(Mul(cs[1], v[1]), Mul(cs[2], v[2])), Add(Mul(cs[2], v[1]), Mul(cs[1], v[2]))>>

\* Sprite.angle setter for a fresh value object: the cached path is rotated
\* around the position by a - self._angle, then the angle is stored.
SetAngle(s, a) ==
    [s EXCEPT !.path = [i \in 1..Len(s.path) |->
                           VAdd(s.position, Rotate(VSub(s.path[i], s.position), AngleSub(a, s.angle)))],
              !.angle = a]

\* Sprite.velocity setter
SetVelocity(s, vel) == [s EXCEPT !.velocity = vel]

\* x_y_scale of _set_path
XYScale(s) == <<s.scale, Mul(s.scale, s.aspect_ratio)>>

\* Elementwise product of two arrays
VMul(u, v) == <<Mul(u[1], v[1]), Mul(u[2], v[2])>>

\* The transform of _set_path applied to a point of the shape path: scale,
\* then rotate by the angle, then translate by the position.
Transform(s, v) == VAdd(Rotate(VMul(XYScale(s), v), s.angle), s.position)

\* np.max of a set of numbers
MaxQ(xs) == IF \E x \in xs : IsNaN(x) THEN NaN ELSE CHOOSE m \in xs : \A x \in xs : Le(x, m)

\* Sprite._set_path: the path is derived again from the shape path, and the
\* rotational inertia is multiplied by the square of x_y_scale.  The square
\* of _max_radius is kept, which is rational.
SetPath(s) ==
    With([i \in 1..Len(s.shape_path) |-> Transform(s, s.shape_path[i])], LAMBDA path :
         [s EXCEPT !.path = path,
                   !.max_radius_sq = MaxQ({Dot(VSub(path[i], s.position), VSub(path[i], s.position)) : i \in 1..Len(path)}),
                   !.xy_inertia = VMul(@, VMul(XYScale(s), XYScale(s)))])

RECURSIVE ShapeSums(_, _)
\* Sprite._set_shape_path, lines 347-362: the loop over the vertices
\* i = 0..num_vertices-1, here 1..n.
ShapeSums(shape_path, i) ==
    IF i = 0 THEN [inertia |-> VZero, area |-> Zero, centroid |-> VZero]
    ELSE With(ShapeSums(shape_path, i - 1), LAMBDA acc :
         LET vertex_0 == shape_path[i]
             vertex_1 == shape_path[(i % Len(shape_path)) + 1]
             cross == Cross(vertex_0, vertex_1)
             triangle_area == Div(cross, I(2))
             triangle_centroid == VDiv(VAdd(vertex_0, vertex_1), I(3))
         IN  [inertia |-> VAdd(acc.inertia,
                               VScale(Mul(Q(1, 12), cross),
                                      VAdd(VAdd(VMul(vertex_0, vertex_0), VMul(vertex_1, vertex_1)),
                                           VMul(vertex_0, vertex_1)))),
              area |-> Add(acc.area, triangle_area),
              centroid |-> VAdd(acc.centroid, VScale(triangle_area, triangle_centroid))])

\* shape_path[::-1]
Reverse(seq) == [i \in 1..Len(seq) |-> seq[Len(seq) + 1 - i]]

\* Sprite._set_shape_path
SetShapePath(s, shape_path) ==
    With(ShapeSums(shape_path, Len(shape_path)), LAMBDA sums :
    With(VDiv(sums.centroid, sums.area), LAMBDA centroid :
         LET clockwise == Lt(sums.area, Zero)
             oriented == IF clockwise THEN Reverse(shape_path) ELSE shape_path
             inertia_0 == IF clockwise THEN VScale(I(-1), sums.inertia) ELSE sums.inertia
             area == IF clockwise THEN Mul(sums.area, I(-1)) ELSE sums.area
             loop == oriented \o <<oriented[1]>>
             inertia == VSub(inertia_0, VScale(area, VMul(centroid, centroid)))
         IN  With([s EXCEPT !.shape_path = TranslatePath(loop, VScale(I(-1), centroid)),
                            !.xy_inertia = VDiv(inertia, area)], LAMBDA centered :
             With(SetPath(centered), LAMBDA derived :
                  SetPosition(derived, VAdd(derived.position, centroid))))))

\* shapes.SHAPES: the table of the named shapes.  The vertices come from
\* the spriteworld package; a square of side 1 stands for them here.
SHAPES ==
    [square |-> <<<<Q(1, 2), Q(1, 2)>>, <<Q(-1, 2), Q(1, 2)>>,
                  <<Q(-1, 2), Q(-1, 2)>>, <<Q(1, 2), Q(-1, 2)>>>>]

\* Sprite.shape setter: a shape is [name |-> key of SHAPES] or
\* [vertices |-> array of vertices].
ShapeSetter(s, shape) ==
    IF "name" \in DOMAIN shape /\ shape.name \in DOMAIN SHAPES
    THEN SetShapePath([s EXCEPT !.shape = shape.name], SHAPES[shape.name])
    ELSE SetShapePath([s EXCEPT !.shape = "custom"], shape.vertices)

\* Sprite.__init__
NewSprite(position, shape, angle, scale, aspect_ratio, velocity, angle_vel, mass) ==
    ShapeSetter([position |-> position, angle |-> angle, scale |-> scale,
                 aspect_ratio |-> aspect_ratio, velocity |-> velocity,
                 angle_vel |-> angle_vel, mass |-> mass, shape |-> "",
                 shape_path |-> <<>>, path |-> <<>>, xy_inertia |-> VZero,
                 max_radius_sq |-> Zero],
                shape)

\* The result of a call on a sprite that may raise: ok = FALSE is a raised
\* ValueError, and s is the sprite as the call left it.
Returned(s) == [ok |-> TRUE, s |-> s]
Raised(s) == [ok |-> FALSE, s |-> s]

\* The angle setter without the check of the identity of the value
AngleSetter_NoCheck(s, a, is_stored) == Returned(SetAngle(s, a))

\* Sprite.position setter; is_stored tells whether the value assigned is
\* the object the sprite stores, id(pos) == id(self.position).
PositionSetter(s, pos, is_stored) ==
    IF is_stored THEN Raised(s) ELSE Returned(SetPosition(s, pos))

\* Sprite.velocity setter: the value is stored, whatever object it is
VelocitySetter(s, vel, is_stored) == Returned(SetVelocity(s, vel))

\* Sprite.angle setter; is_stored is id(a) == id(self._angle)
AngleSetter(s, a, is_stored) ==
    IF is_stored THEN Raised(s) ELSE Returned(SetAngle(s, a))

\* Sprite.scale setter: the identity of the value is not looked at
ScaleSetter(s, sc, is_stored) == Returned(SetPath([s EXCEPT !.scale = sc]))

\* Sprite.aspect_ratio setter
AspectRatioSetter(s, a, is_stored) == Returned(SetPath([s EXCEPT !.aspect_ratio = a]))

\* Sprite.vertices
Vertices(s) == SubSeq(s.path, 1, Len(s.path) - 1)

\* factors.get(k, default)
Get(factors, k, default) == IF k \in DOMAIN factors THEN factors[k] ELSE default

\* update_sprite, lines 50-66: the factors set directly, the position and
\* the velocity
UpdateDirect(s, factors) ==
    With([s EXCEPT !.angle_vel = Get(factors, "angle_vel", @),
                   !.mass = Get(factors, "mass", @)], LAMBDA direct :
    With(IF "x" \in DOMAIN factors \/ "y" \in DOMAIN factors
         THEN SetPosition(direct, <<Get(factors, "x", direct.position[1]),
                                    Get(factors, "y", direct.position[2])>>)
         ELSE direct, LAMBDA placed :
         IF "x_vel" \in DOMAIN factors \/ "y_vel" \in DOMAIN factors
         THEN SetVelocity(placed, <<Get(factors, "x_vel", placed.velocity[1]),
                                    Get(factors, "y_vel", placed.velocity[2])>>)
         ELSE placed))

\* update_sprite, lines 71-73: angle, scale and aspect_ratio, set when the
\* value differs from the stored one (a value given in factors is never the
\* stored object when it differs from it)
UpdateTransform(s, factors) ==
    With(IF "angle" \in DOMAIN factors /\ s.angle # factors.angle
         THEN AngleSetter(s, factors.angle, FALSE).s ELSE s, LAMBDA turned :
    With(IF "scale" \in DOMAIN factors /\ turned.scale # factors.scale
         THEN ScaleSetter(turned, factors.scale, FALSE).s ELSE turned, LAMBDA scaled :
         IF "aspect_ratio" \in DOMAIN factors /\ scaled.aspect_ratio # factors.aspect_ratio
         THEN AspectRatioSetter(scaled, factors.aspect_ratio, FALSE).s ELSE scaled))

\* update_sprite, lines 74-92: the shape, given by name or as the array of
\* the vertices the sprite is to have; the array replaces sprite._path.
UpdateShape(s, factors) ==
    IF "shape" \notin DOMAIN factors THEN s
    ELSE IF "name" \in DOMAIN factors.shape
    THEN IF s.shape # factors.shape.name THEN ShapeSetter(s, factors.shape) ELSE s
    ELSE IF Vertices(s) # factors.shape.vertices
    THEN [s EXCEPT !.path = factors.shape.vertices \o <<factors.shape.vertices[1]>>]
    ELSE s

\* update_sprite
UpdateSprite(s, factors) ==
    With(UpdateDirect(s, factors), LAMBDA direct :
    With(UpdateTransform(direct, factors), LAMBDA transformed :
         UpdateShape(transformed, factors)))

\* Sprite.moment_of_inertia: sum(self.mass * self._x_y_rotational_inertia)
MomentOfInertia(s) ==
    Add(Mul(s.mass, s.xy_inertia[1]), Mul(s.mass, s.xy_inertia[2]))

(***************************************************************************)
(* Collision impulse models (src/moog/physics/collisions.py)               *)
(***************************************************************************)
\* _EPSILON = 1e-2
EPSILON == Q(1, 100)

\* np.isclose(np.linalg.norm(collision_normal), 1., atol=1e-4): with the
\* default rtol = 1e-5 the norm must lie within 1.1e-4 of 1.  The test is
\* made on the squared norm, with the squared limits rounded to 1e-5.
NormalIsUnit(n) ==
    LET sq == Dot(n, n)
    IN  IsFinite(sq) /\ Le(Q(99978, 100000), sq) /\ Le(sq, Q(100022, 100000))

\* The result of a call that may raise: ok = FALSE is a raised ValueError,
\* and then s0 and s1 are the sprites as the call left them.
Outcome(ok, s0, s1) == [ok |-> ok, s0 |-> s0, s1 |-> s1]

\* A slip in the centre-of-mass velocity: the plain mean of the two normal
\* velocities instead of the mass-weighted one.
VelCmNormal_Unweighted(vel_0_normal, vel_1_normal, m_0, m_1, symmetric) ==
    IF symmetric
    THEN VDiv(VAdd(vel_0_normal, vel_1_normal), I(2))
    ELSE vel_1_normal

\* The two masses taken for one another in the weighted mean
VelCmNormal_MassesSwapped(vel_0_normal, vel_1_normal, m_0, m_1, symmetric) ==
    IF symmetric
    THEN VDiv(VAdd(VScale(m_1, vel_0_normal), VScale(m_0, vel_1_normal)),
              Add(m_0, m_1))
    ELSE vel_1_normal

\* The symmetric flag ignored: the normal velocity of sprite_1 taken for
\* that of the center of mass, as if sprite_1 were immovable.
VelCmNormal_OfSprite1(vel_0_normal, vel_1_normal, m_0, m_1, symmetric) ==
    vel_1_normal

\* _collide_without_update_angle_vel, lines 324-329: the velocity of the
\* center of mass of the system along the normal.
VelCmNormal(vel_0_normal, vel_1_normal, m_0, m_1, symmetric) ==
    IF symmetric
    THEN VDiv(VAdd(VScale(m_0, vel_0_normal), VScale(m_1, vel_1_normal)),
              Add(m_0, m_1))
    ELSE vel_1_normal

\* _collide_without_update_angle_vel
CollideWithoutUpdateAngleVel(sprite_0, sprite_1, collision_point, collision_normal, elasticity, symmetric) ==
    IF ~NormalIsUnit(collision_normal)
    THEN Outcome(FALSE, sprite_0, sprite_1)
    ELSE
    LET vel_0 == sprite_0.velocity
        vel_1 == sprite_1.velocity
        m_0 == sprite_0.mass
        m_1 == sprite_1.mass
        vel_0_normal == VScale(Dot(vel_0, collision_normal), collision_normal)
        vel_1_normal == VScale(Dot(vel_1, collision_normal), collision_normal)
        vel_cm_normal ==
            VelCmNormal(vel_0_normal, vel_1_normal, m_0, m_1, symmetric)
        delta_v_0 == VScale(Add(One, elasticity), VSub(vel_cm_normal, vel_0_normal))
        delta_v_1 == VScale(Add(One, elasticity), VSub(vel_cm_normal, vel_1_normal))
    IN  Outcome(TRUE,
                SetVelocity(sprite_0, VAdd(vel_0, delta_v_0)),
                SetVelocity(sprite_1, VAdd(vel_1, delta_v_1)))

\* r * sin(theta) of _collide_with_update_angle_vel, where
\* sin(theta) = np.cross(c_point, normal) / r and r = norm(c_point): the
\* cross product itself, except that r = 0 makes sin(theta) = 0/0 = NaN.
LeverArm(c_point, collision_normal) ==
    IF c_point = VZero \/ ~VFinite(c_point) THEN NaN
    ELSE Cross(c_point, collision_normal)

\* _collide_with_update_angle_vel
CollideWithUpdateAngleVel(sprite_0, sprite_1, collision_point, collision_normal, elasticity, symmetric) ==
    LET m_0 == sprite_0.mass
        m_1 == sprite_1.mass
        w_0 == sprite_0.angle_vel
        w_1 == sprite_1.angle_vel
        i_0 == MomentOfInertia(sprite_0)
        i_1 == MomentOfInertia(sprite_1)
        v_0 == Dot(sprite_0.velocity, collision_normal)
        v_1 == Dot(sprite_1.velocity, collision_normal)
        s_0 == LeverArm(VSub(collision_point, sprite_0.position), collision_normal)
        s_1 == LeverArm(VSub(collision_point, sprite_1.position), collision_normal)
        a == Add(Add(m_0, m_1),
                 Mul(Mul(m_0, m_1),
                     Add(Div(Mul(s_0, s_0), i_0), Div(Mul(s_1, s_1), i_1))))
        b == Mul(Add(One, elasticity),
                 Sub(Add(Sub(v_0, v_1), Mul(w_0, s_0)), Mul(w_1, s_1)))
        delta_v_0 == IF symmetric
                     THEN Div(Mul(Mul(I(-1), m_1), b), a)
                     ELSE Div(Mul(Mul(I(-1), m_1), b), Sub(a, m_0))
        delta_v_1 == IF symmetric THEN Div(Mul(m_0, b), a) ELSE Zero
        delta_w_0 == Div(Mul(Mul(m_0, delta_v_0), s_0), i_0)
        delta_w_1 == Div(Mul(Mul(m_1, delta_v_1), s_1), i_1)
    IN  Outcome(TRUE,
                [sprite_0 EXCEPT
                    !.velocity = VAdd(@, VScale(delta_v_0, collision_normal)),
                    !.angle_vel = Add(@, delta_w_0)],
                [sprite_1 EXCEPT
                    !.velocity = VAdd(@, VScale(delta_v_1, collision_normal)),
                    !.angle_vel = Add(@, delta_w_1)])

\* The separation with the margin scaled as a whole: half of (1 + epsilon)
\* to each sprite of a symmetric collision.
Separate_HalfOfScaled(sprite_0, sprite_1, perpendicular, symmetric) ==
    IF symmetric
    THEN <<SetPosition(sprite_0,
               VSub(sprite_0.position,
                    VScale(Mul(Q(1, 2), Add(One, EPSILON)), perpendicular))),
           SetPosition(sprite_1,
               VAdd(sprite_1.position,
                    VScale(Mul(Q(1, 2), Add(One, EPSILON)), perpendicular)))>>
    ELSE <<SetPosition(sprite_0,
               VSub(sprite_0.position,
                    VScale(Add(One, EPSILON), perpendicular))),
           sprite_1>>

\* Collision.step, lines 535-542: displace the sprites along the overlap
\* margin so that they no longer intersect.
Separate(sprite_0, sprite_1, perpendicular, symmetric) ==
    IF symmetric
    THEN <<SetPosition(sprite_0,
               VSub(sprite_0.position,
                    VScale(Add(Q(1, 2), EPSILON), perpendicular))),
           SetPosition(sprite_1,
               VAdd(sprite_1.position,
                    VScale(Add(Q(1, 2), EPSILON), perpendicular)))>>
    ELSE <<SetPosition(sprite_0,
               VSub(sprite_0.position,
                    VScale(Add(One, EPSILON), perpendicular))),
           sprite_1>>

\* Collision.step, lines 527-563: a past contact is resolved by separating
\* the sprites and then updating their velocities.
ResolveContact(sprite_0, sprite_1, collision_point, collision_normal, perpendicular, elasticity, symmetric, update_angle_vel) ==
    LET moved == Separate(sprite_0, sprite_1, perpendicular, symmetric)
    IN  IF update_angle_vel
        THEN CollideWithUpdateAngleVel(moved[1], moved[2], collision_point,
                                        collision_normal, elasticity, symmetric)
        ELSE CollideWithoutUpdateAngleVel(moved[1], moved[2], collision_point,
                                           collision_normal, elasticity, symmetric)

(***************************************************************************)
(* Geometry of two sprites (the crossing helpers of src/moog/sprite.py and *)
(* the collision vectors of src/moog/physics/collisions.py).  Indices are  *)
(* 1-based here and 0-based in the source.  A geometric result carries a   *)
(* flag exact: it is FALSE when the result of the program depends on       *)
(* _EPSILON_INTERPOLATION, on rounding, or on how matplotlib treats a      *)
(* point on a boundary, which the exact arithmetic here does not decide.   *)
(***************************************************************************)
None == <<>>

\* np.nan where an array is expected: a scalar, written as a sequence of
\* one number
ScalarNaN == <<NaN>>

\* The value of a loop that does not end
Endless == <<"endless">>

\* numerator / (denominator + _EPSILON_INTERPOLATION), the tiny float taken
\* as a positive infinitesimal: a quotient by zero has the sign of the
\* numerator, and 0 / (0 + epsilon) is 0.
Coefficient(num, det) ==
    IF det # Zero THEN Div(num, det)
    ELSE IF num = Zero THEN Zero
    ELSE IF Gt(num, Zero) THEN Inf
    ELSE IF Lt(num, Zero) THEN NegInf
    ELSE NaN

\* segment_crossing_coefficients for one segment of each set: A and B, and
\* whether the two segments lie on one line (singular).
SegmentCrossingCoefficients(start_0, end_0, start_1, end_1) ==
    With(VSub(end_0, start_0), LAMBDA ds_0 :
    With(VSub(end_1, start_1), LAMBDA ds_1 :
    With(Cross(ds_0, ds_1), LAMBDA ds_0_cross_ds_1 :
    With(VSub(start_1, start_0), LAMBDA s_1_minus_s_0 :
         [A |-> Coefficient(Cross(s_1_minus_s_0, ds_1), ds_0_cross_ds_1),
          B |-> Coefficient(Cross(s_1_minus_s_0, ds_0), ds_0_cross_ds_1),
          singular |-> ds_0_cross_ds_1 = Zero /\ Cross(s_1_minus_s_0, ds_0) = Zero]))))

\* The sequence of the values F(1), ..., F(n)
Tabulate(n, F(_)) == [i \in 1..n |-> F(i)] \o <<>>

\* np.argwhere of an N x M table of booleans: the pairs of indices of the
\* true entries, row by row
RECURSIVE ArgWhere(_, _, _, _)
ArgWhere(table, n, m, k) ==
    IF k > n * m THEN <<>>
    ELSE LET i == ((k - 1) \div m) + 1
             j == ((k - 1) % m) + 1
         IN  (IF table[i][j] THEN <<(<<i, j>>)>> ELSE <<>>) \o ArgWhere(table, n, m, k + 1)

\* segment_crossings: the crossing points of the segments of two paths, with
\* the indices of the segments
SegmentCrossings(path_0, path_1) ==
    With(Len(path_0) - 1, LAMBDA n :
    With(Len(path_1) - 1, LAMBDA m :
    With(Tabulate(n, LAMBDA i : Tabulate(m, LAMBDA j :
             SegmentCrossingCoefficients(path_0[i], path_0[i + 1], path_1[j], path_1[j + 1]))), LAMBDA c :
    With(ArgWhere([i \in 1..n |-> [j \in 1..m |->
             Gt(c[i][j].A, Zero) /\ Lt(c[i][j].A, One) /\ Gt(c[i][j].B, Zero) /\ Lt(c[i][j].B, One)]],
             n, m, 1), LAMBDA inds_crossings :
         [crossing_points |-> Tabulate(Len(inds_crossings), LAMBDA k :
              LET ind_0 == inds_crossings[k][1]
                  ind_1 == inds_crossings[k][2]
              IN  VAdd(path_0[ind_0], VScale(c[ind_0][ind_1].A, VSub(path_0[ind_0 + 1], path_0[ind_0])))),
          inds_crossings |-> inds_crossings,
          exact |-> \A i \in 1..n, j \in 1..m :
                       /\ c[i][j].A # One /\ c[i][j].B # One
                       /\ ~c[i][j].singular]))))

\* sprite_edge_crossings
SpriteEdgeCrossings(sprite_0, sprite_1) == SegmentCrossings(sprite_0.path, sprite_1.path)

\* The point lies on an edge of the closed path
OnBoundary(path, p) ==
    \E i \in 1..(Len(path) - 1) :
        /\ Cross(VSub(path[i + 1], path[i]), VSub(p, path[i])) = Zero
        /\ Le(Dot(VSub(p, path[i]), VSub(p, path[i + 1])), Zero)

\* matplotlib's Path.contains_point for a closed path: the parity of the
\* number of the edges a ray from the point towards +x crosses
ContainsPoint(path, p) ==
    LET crossed(i) ==
            /\ Gt(path[i][2], p[2]) # Gt(path[i + 1][2], p[2])
            /\ Lt(p[1], Add(path[i][1],
                            Div(Mul(Sub(p[2], path[i][2]), Sub(path[i + 1][1], path[i][1])),
                                Sub(path[i + 1][2], path[i][2]))))
    IN  Cardinality({i \in 1..(Len(path) - 1) : crossed(i)}) % 2 = 1

\* matplotlib's Path.intersects_path(filled=True): two edges intersect, or
\* one path lies inside the other
IntersectsPath(path_0, path_1) ==
    With(Tabulate(Len(path_0) - 1, LAMBDA i : Tabulate(Len(path_1) - 1, LAMBDA j :
             SegmentCrossingCoefficients(path_0[i], path_0[i + 1], path_1[j], path_1[j + 1]))), LAMBDA c :
    LET inside(x) == Ge(x, Zero) /\ Le(x, One)
        edges == \E i \in 1..Len(c), j \in 1..(Len(path_1) - 1) :
                     ~c[i][j].singular /\ inside(c[i][j].A) /\ inside(c[i][j].B)
        exact == /\ \A i \in 1..Len(c), j \in 1..(Len(path_1) - 1) :
                        /\ ~c[i][j].singular
                        /\ c[i][j].A \in {Zero, One} => ~inside(c[i][j].B)
                        /\ c[i][j].B \in {Zero, One} => ~inside(c[i][j].A)
                 /\ \A i \in 1..Len(path_0) : ~OnBoundary(path_1, path_0[i])
                 /\ \A j \in 1..Len(path_1) : ~OnBoundary(path_0, path_1[j])
    IN  [overlap |-> \/ edges
                     \/ \A j \in 1..Len(path_1) : ContainsPoint(path_0, path_1[j])
                     \/ \A i \in 1..Len(path_0) : ContainsPoint(path_1, path_0[i]),
         exact |-> exact])

\* np.linalg.norm(v) ** 2: the norms are compared by their squares
NormSq(v) == Dot(v, v)

\* Sprite.overlaps_sprite.  The radii are kept as their squares, and the
\* first return is taken when d^2 > 2 (r_0^2 + r_1^2), which implies
\* d > r_0 + r_1.  When d > r_0 + r_1 holds without it, the circles around
\* the two sprites are disjoint, so are the paths, and intersects_path gives
\* the answer of the first return.
OverlapsSprite(sprite_0, sprite_1) ==
    IF Gt(NormSq(VSub(sprite_0.position, sprite_1.position)),
          Mul(I(2), Add(sprite_0.max_radius_sq, sprite_1.max_radius_sq)))
    THEN [overlap |-> FALSE, exact |-> TRUE]
    ELSE IntersectsPath(sprite_0.path, sprite_1.path)

(***************************************************************************)
(* Collision vectors (src/moog/physics/collisions.py)                      *)
(***************************************************************************)
\* rotate_around(x, y, theta) applied to a point
RotateAround(v, center, theta) == VAdd(center, Rotate(VSub(v, center), theta))

\* _relative_motion_trajectory: for each point of the path, its previous
\* position in the frame of anchor_sprite and the point itself
RelativeMotionTrajectory(path, path_sprite, anchor_sprite, delta_t) ==
    Tabulate(Len(path), LAMBDA i :
        With(RotateAround(path[i], path_sprite.position,
                          Angle(Mul(Mul(I(-1), path_sprite.angle_vel), delta_t), 0)), LAMBDA unturned :
        With(VAdd(unturned, VScale(delta_t, VScale(I(-1), path_sprite.velocity))), LAMBDA undone :
        With(RotateAround(undone, anchor_sprite.position,
                          Angle(Mul(anchor_sprite.angle_vel, delta_t), 0)), LAMBDA turned :
             <<VAdd(turned, VScale(delta_t, anchor_sprite.velocity)), path[i]>>))))

\* np.argmin of a sequence of numbers: the first NaN if there is one, else
\* the first least element
ArgMin(xs) ==
    IF \E i \in 1..Len(xs) : IsNaN(xs[i])
    THEN CHOOSE i \in 1..Len(xs) : IsNaN(xs[i]) /\ \A j \in 1..(i - 1) : ~IsNaN(xs[j])
    ELSE CHOOSE i \in 1..Len(xs) :
             /\ \A j \in 1..Len(xs) : Le(xs[i], xs[j])
             /\ \A j \in 1..(i - 1) : xs[j] # xs[i]

\* np.argmax
ArgMax(xs) == ArgMin([i \in 1..Len(xs) |-> Neg(xs[i])])

\* The four values _directed_collision_vectors returns
Vectors(collision_point, collision_normal, since_collision, perpendicular, exact) ==
    [collision_point |-> collision_point, collision_normal |-> collision_normal,
     since_collision |-> since_collision, perpendicular |-> perpendicular, exact |-> exact]

\* _directed_collision_vectors
DirectedCollisionVectors(sprite_0, sprite_1, delta_t) ==
    With(Vertices(sprite_0), LAMBDA vertices_0 :
    With(SelectSeq(vertices_0, LAMBDA v : ContainsPoint(sprite_1.path, v)), LAMBDA contained_vertices_0 :
    With(\A i \in 1..Len(vertices_0) : ~OnBoundary(sprite_1.path, vertices_0[i]), LAMBDA off_boundary :
    IF Len(contained_vertices_0) = 0 THEN Vectors(None, None, None, None, off_boundary)
    ELSE
    With(RelativeMotionTrajectory(contained_vertices_0, sprite_0, sprite_1, delta_t), LAMBDA traj :
    With(Vertices(sprite_1), LAMBDA vertices_1 :
    With(SubSeq(vertices_1, 2, Len(vertices_1)) \o SubSeq(vertices_1, 1, 1), LAMBDA vertices_1_next :
    With(Tabulate(Len(traj), LAMBDA i : Tabulate(Len(vertices_1), LAMBDA j :
             SegmentCrossingCoefficients(traj[i][1], traj[i][2], vertices_1[j], vertices_1_next[j]))), LAMBDA c :
    With(Tabulate(Len(traj), LAMBDA i : Tabulate(Len(vertices_1), LAMBDA j :
             Ge(c[i][j].B, Zero) /\ Le(c[i][j].B, One))), LAMBDA crossings :
    With(/\ off_boundary
         /\ \A i \in 1..Len(traj), j \in 1..Len(vertices_1) :
               ~c[i][j].singular /\ c[i][j].B # One /\ (crossings[i][j] => c[i][j].A # One), LAMBDA untied :
    IF \A i \in 1..Len(traj), j \in 1..Len(vertices_1) : ~crossings[i][j]
    THEN Vectors(None, None, None, None, untied)
    ELSE
    With(Tabulate(Len(traj), LAMBDA i : Tabulate(Len(vertices_1), LAMBDA j :
             IF crossings[i][j] THEN c[i][j].A ELSE NegInf)), LAMBDA cross_a :
    With(Tabulate(Len(traj), LAMBDA i :
             ArgMin([j \in 1..Len(vertices_1) |-> AbsQ(Sub(One, cross_a[i][j]))])), LAMBDA inds_crossings :
    With(Tabulate(Len(traj), LAMBDA i :
             VAdd(traj[i][1], VScale(cross_a[i][inds_crossings[i]], VSub(traj[i][2], traj[i][1])))), LAMBDA crossing_points :
    With(Tabulate(Len(traj), LAMBDA i : VSub(traj[i][2], crossing_points[i])), LAMBDA diffs_from_crossings :
    With(ArgMax([i \in 1..Len(traj) |->
             IF NormSq(diffs_from_crossings[i]) = Inf THEN Zero
             ELSE NormSq(diffs_from_crossings[i])]), LAMBDA crossing_points_ind :
    With(inds_crossings[crossing_points_ind], LAMBDA sprite_1_ind :
    With(crossing_points[crossing_points_ind], LAMBDA collision_point :
    With(diffs_from_crossings[crossing_points_ind], LAMBDA since_collision :
    With(/\ untied
         /\ \A i \in 1..Len(traj), j \in 1..Len(vertices_1) :
               (crossings[i][j] /\ j # inds_crossings[i])
                   => AbsQ(Sub(One, cross_a[i][j])) # AbsQ(Sub(One, cross_a[i][inds_crossings[i]]))
         /\ \A i \in 1..Len(traj) :
               i # crossing_points_ind
                   => NormSq(diffs_from_crossings[i]) # NormSq(since_collision), LAMBDA exact :
    IF Gt(cross_a[crossing_points_ind][sprite_1_ind], One)
    THEN Vectors(collision_point, ScalarNaN, since_collision, None, exact)
    ELSE
    With(VSub(vertices_1_next[sprite_1_ind], vertices_1[sprite_1_ind]), LAMBDA delta_vertex_1 :
    With(<<delta_vertex_1[2], Mul(I(-1), delta_vertex_1[1])>>, LAMBDA normal_vector :
         Vectors(collision_point,
                 VDiv(normal_vector, Norm(normal_vector)),
                 since_collision,
                 VSub(since_collision,
                      VScale(Div(Dot(since_collision, delta_vertex_1), Dot(delta_vertex_1, delta_vertex_1)),
                             delta_vertex_1)),
                 exact)))))))))))))))))))))

\* np.linalg.norm(u) > np.linalg.norm(v), decided on the squares
NormGt(u, v) == Gt(NormSq(u), NormSq(v))

\* _get_collision_vectors: the event of the two directed ones with the
\* larger displacement since the collision; direction tells which it is.
GetCollisionVectors(sprite_0, sprite_1, delta_t) ==
    With(DirectedCollisionVectors(sprite_1, sprite_0, delta_t), LAMBDA directed_0 :
    With(DirectedCollisionVectors(sprite_0, sprite_1, delta_t), LAMBDA directed_1 :
    With(IF directed_0.collision_point = None
         THEN [directed_0 EXCEPT !.since_collision = VZero]
         ELSE [directed_0 EXCEPT !.collision_normal = IF @ = ScalarNaN THEN ScalarNaN ELSE VScale(I(-1), @),
                                 !.since_collision = VScale(I(-1), @)], LAMBDA vectors_0 :
    With(IF directed_1.since_collision = None
         THEN [directed_1 EXCEPT !.since_collision = VZero]
         ELSE directed_1, LAMBDA vectors_1 :
         [(IF NormGt(vectors_0.since_collision, vectors_1.since_collision)
           THEN vectors_0 @@ [direction |-> 0]
           ELSE vectors_1 @@ [direction |-> 1])
          EXCEPT !.exact = directed_0.exact /\ directed_1.exact]))))

\* np.sign
SignQ(a) == IF IsNaN(a) THEN NaN ELSE I(Sgn(a[1]))

\* np.argsort of a sequence of numbers, NaN last; equal elements keep their
\* order (the arrays are short, and numpy sorts short arrays by insertion)
ArgSort(xs) ==
    LET before(j, i) ==
            \/ Lt(xs[j], xs[i])
            \/ ~IsNaN(xs[j]) /\ IsNaN(xs[i])
            \/ (xs[j] = xs[i] /\ j < i)
        rank(i) == 1 + Cardinality({j \in 1..Len(xs) : before(j, i)})
    IN  [k \in 1..Len(xs) |-> CHOOSE i \in 1..Len(xs) : rank(i) = k]

\* The while loop of _position_correction: the largest penalty of the
\* vertices met from current_ind on in the direction parity, while the
\* penalty is positive.  After a full turn with every penalty positive the
\* loop would go around forever: the result is then Endless.
RECURSIVE WorstPenalty(_, _, _, _, _, _, _)
WorstPenalty(vertices, pt_0, norm_v, current_ind, parity, worst_penalty, turns) ==
    With(Dot(VSub(vertices[current_ind], pt_0), norm_v), LAMBDA penalty :
         IF ~Gt(penalty, Zero) THEN worst_penalty
         ELSE IF turns = Len(vertices) THEN Endless
         ELSE WorstPenalty(vertices, pt_0, norm_v,
                           ((current_ind - 1 + parity) % Len(vertices)) + 1, parity,
                           IF Gt(penalty, worst_penalty) THEN penalty ELSE worst_penalty,
                           turns + 1))

\* _position_correction
PositionCorrection(crossing_points, sprite_0, crossing_inds_0, sprite_1, crossing_inds_1) ==
    With(Vertices(sprite_0), LAMBDA vertices :
    With(Vertices(sprite_1), LAMBDA other_vertices :
    With(ArgSort([k \in 1..Len(crossing_points) |->
             NormSq(VSub(crossing_points[k], sprite_0.position))]), LAMBDA sorted_inds :
    IF sorted_inds[1] = sorted_inds[2] THEN <<Inf, Inf>>
    ELSE
    With(crossing_points[sorted_inds[1]], LAMBDA pt_0 :
    With(crossing_inds_1[sorted_inds[1]], LAMBDA pt_0_ind :
    With(((pt_0_ind - 2) % Len(other_vertices)) + 1, LAMBDA pt_1_ind :
    With(VSub(other_vertices[pt_0_ind], other_vertices[pt_1_ind]), LAMBDA bdry :
    With(VDiv(bdry, Norm(bdry)), LAMBDA normalized_bdry :
    With(VScale(Mul(I(-1), SignQ(Dot(VSub(sprite_1.position, other_vertices[pt_1_ind]), normalized_bdry))),
                normalized_bdry), LAMBDA norm_v :
    With(crossing_inds_0[sorted_inds[1]], LAMBDA ind_forward :
    With(((ind_forward - 2) % Len(vertices)) + 1, LAMBDA ind_backward :
    With(IF Gt(Dot(VSub(vertices[ind_forward], pt_0), norm_v), Zero)
         THEN WorstPenalty(vertices, pt_0, norm_v, ind_forward, 1, Zero, 0)
         ELSE IF Gt(Dot(VSub(vertices[ind_backward], pt_0), norm_v), Zero)
         THEN WorstPenalty(vertices, pt_0, norm_v, ind_backward, -1, Zero, 0)
         ELSE Inf, LAMBDA worst_penalty :
         IF worst_penalty = Endless THEN Endless
         ELSE IF worst_penalty = Inf THEN <<Inf, Inf>>
         ELSE VScale(worst_penalty, norm_v)))))))))))))

\* The correction applied to both sprites whatever symmetric is
ApplyCorrection_BothAlways(sprite_0, sprite_1, correction, symmetric) ==
    [s0 |-> SetPosition(sprite_0, VAdd(sprite_0.position, VScale(Q(1, 2), correction))),
     s1 |-> SetPosition(sprite_1, VSub(sprite_1.position, VScale(Q(1, 2), correction)))]

\* Collision._make_disjoint, lines 635-640: the positions are set, of both
\* sprites by half the correction each if symmetric, of sprite_0 alone if not
ApplyCorrection(sprite_0, sprite_1, correction, symmetric) ==
    IF symmetric
    THEN [s0 |-> SetPosition(sprite_0, VAdd(sprite_0.position, VScale(Q(1, 2), correction))),
          s1 |-> SetPosition(sprite_1, VSub(sprite_1.position, VScale(Q(1, 2), correction)))]
    ELSE [s0 |-> SetPosition(sprite_0, VAdd(sprite_0.position, correction)),
          s1 |-> sprite_1]

\* Collision._make_disjoint: the two sprites after it, and whether it ended
MakeDisjoint(sprite_0, sprite_1, symmetric) ==
    With(SpriteEdgeCrossings(sprite_0, sprite_1), LAMBDA crossings :
    With(Tabulate(Len(crossings.inds_crossings), LAMBDA k : crossings.inds_crossings[k][1]), LAMBDA inds_0 :
    With(Tabulate(Len(crossings.inds_crossings), LAMBDA k : crossings.inds_crossings[k][2]), LAMBDA inds_1 :
    IF Len(crossings.inds_crossings) <= 1
    THEN [ended |-> TRUE, s0 |-> sprite_0, s1 |-> sprite_1, exact |-> crossings.exact]
    ELSE
    With(PositionCorrection(crossings.crossing_points, sprite_0, inds_0, sprite_1, inds_1), LAMBDA correction_0 :
    With(PositionCorrection(crossings.crossing_points, sprite_1, inds_1, sprite_0, inds_0), LAMBDA correction_1 :
    IF correction_0 = Endless \/ correction_1 = Endless
    THEN [ended |-> FALSE, s0 |-> sprite_0, s1 |-> sprite_1, exact |-> crossings.exact]
    ELSE
    With(IF NormGt(correction_0, correction_1)
         THEN VScale(Mul(I(-1), Add(One, EPSILON)), correction_0)
         ELSE VScale(Add(One, EPSILON), correction_0), LAMBDA scaled :
    With(IF VFinite(scaled) THEN scaled ELSE VZero, LAMBDA correction :
         [ended |-> TRUE, exact |-> crossings.exact]
             @@ ApplyCorrection(sprite_0, sprite_1, correction, symmetric))))))))

\* recursion_depth > self._max_recursion_depth, checked one call too late
DepthExceeded_OneLate(recursion_depth, max_recursion_depth) ==
    recursion_depth > max_recursion_depth + 1

\* Collision.step, line 497: the guard of the recursion
DepthExceeded(recursion_depth, max_recursion_depth) ==
    recursion_depth > max_recursion_depth

\* What one call of Collision.step does before it returns or calls itself:
\* kind tells how it went on, s0 and s1 are the sprites as it left them,
\* event is the result of _get_collision_vectors if it was computed.
StepResult(kind, s0, s1, event, exact) ==
    [kind |-> kind, s0 |-> s0, s1 |-> s1, event |-> event, exact |-> exact]

\* Collision.step, the body of one call.  same_object is sprite_0 ==
\* sprite_1, which compares the identities of the two objects.
CollisionStep(sprite_0, sprite_1, same_object, updates_per_env_step, recursion_depth, c) ==
    IF DepthExceeded(recursion_depth, c.max_recursion_depth)
    THEN StepResult("depth_limit", sprite_0, sprite_1, None, TRUE)
    ELSE IF same_object
    THEN StepResult("same_sprite", sprite_0, sprite_1, None, TRUE)
    ELSE
    With(OverlapsSprite(sprite_0, sprite_1), LAMBDA overlaps :
    IF ~overlaps.overlap
    THEN StepResult("disjoint", sprite_0, sprite_1, None, overlaps.exact)
    ELSE
    With(GetCollisionVectors(sprite_0, sprite_1, Div(One, I(updates_per_env_step))), LAMBDA event :
    IF event.collision_point = None
    THEN With(MakeDisjoint(sprite_0, sprite_1, c.symmetric), LAMBDA moved :
              StepResult(IF moved.ended THEN "made_disjoint" ELSE "endless", moved.s0, moved.s1, event,
                         overlaps.exact /\ event.exact /\ moved.exact))
    ELSE IF event.collision_normal = ScalarNaN
    THEN StepResult("future", sprite_0, sprite_1, event, overlaps.exact /\ event.exact)
    ELSE With(ResolveContact(sprite_0, sprite_1, event.collision_point, event.collision_normal,
                             event.perpendicular, c.elasticity, c.symmetric, c.update_angle_vel), LAMBDA out :
              StepResult(IF out.ok THEN "resolved" ELSE "raised", out.s0, out.s1, event,
                         overlaps.exact /\ event.exact))))

(***************************************************************************)
(* Newtonian forces (src/moog/physics/abstract_force.py, gravity.py,       *)
(* friction.py, distance_fn_force.py, random_force.py).  A force object is *)
(* a record with its kind and its constructor parameters.                  *)
(***************************************************************************)
\* DownGravity._compute_forces
DownGravityForces(force, sprite) ==
    <<VScale(Mul(force.g, sprite.mass), V(0, 1))>>

\* KineticFriction._compute_forces
KineticFrictionForces(force, sprite) ==
    LET velocity_norm == Norm(sprite.velocity)
        normalized_velocity ==
            IF NumEq(velocity_norm, Zero) THEN VZero
            ELSE VDiv(sprite.velocity, velocity_norm)
    IN  <<VScale(sprite.mass,
                 VScale(Mul(I(-1), force.coeff_friction), normalized_velocity))>>

\* Drag._compute_forces
DragForces(force, sprite) ==
    <<VScale(sprite.mass,
             VScale(Mul(I(-1), force.coeff_friction), sprite.velocity))>>

\* RandomForce._compute_forces: draw.r is the fraction of
\* max_force_magnitude that np.random.uniform(0, max_force_magnitude) drew
\* and draw.cs is (cos theta, sin theta) of the angle drawn.
RandomForceForces(force, sprite, draw) ==
    <<VScale(Mul(draw.r, force.max_force_magnitude), draw.cs)>>

\* Gravity._compute_forces
GravityForces(force, sprite_a, sprite_b) ==
    LET diff == VSub(sprite_b.position, sprite_a.position)
        dist == Norm(diff)
        force_direction == VDiv(diff, dist)
        force_magnitude == Mul(Mul(Mul(force.g, sprite_a.mass), sprite_b.mass), dist)
        sprite_1_force == VScale(force_magnitude, force_direction)
    IN  IF NumEq(dist, Zero) THEN <<VZero, VZero>>
        ELSE IF force.symmetric
        THEN <<VScale(I(-1), sprite_1_force), sprite_1_force>>
        ELSE <<VZero, sprite_1_force>>

\* spring_force_fn and linear_force_fn
ForceFn(fn, distance) ==
    IF fn.kind = "spring"
    THEN Mul(Mul(I(-1), fn.spring_constant), Sub(distance, fn.equilibrium))
    ELSE LET event_horizon == Div(Mul(I(-1), fn.zero_intercept), fn.slope)
             linear == Add(fn.zero_intercept, Mul(fn.slope, distance))
         IN  IF ~fn.apply_distant_force /\ Gt(distance, event_horizon) THEN Zero
             ELSE IF ~fn.apply_nearby_force /\ Lt(distance, event_horizon) THEN Zero
             ELSE linear

\* DistanceForce._compute_forces
DistanceForceForces(force, sprite_a, sprite_b) ==
    LET diff == VSub(sprite_b.position, sprite_a.position)
        dist == Norm(diff)
        force_direction == VDiv(diff, dist)
        force_magnitude == ForceFn(force.force_fn, dist)
        sprite_1_force == VScale(force_magnitude, force_direction)
    IN  IF NumEq(dist, Zero) THEN <<VZero, VZero>>
        ELSE IF force.symmetric
        THEN <<VScale(I(-1), sprite_1_force), sprite_1_force>>
        ELSE <<VZero, sprite_1_force>>

\* AbstractNewtonianForce._compute_forces, by kind of force
ComputeForces(force, sprites, draw) ==
    CASE force.kind = "DownGravity" -> DownGravityForces(force, sprites[1])
      [] force.kind = "KineticFriction" -> KineticFrictionForces(force, sprites[1])
      [] force.kind = "Drag" -> DragForces(force, sprites[1])
      [] force.kind = "RandomForce" -> RandomForceForces(force, sprites[1], draw)
      [] force.kind = "Gravity" -> GravityForces(force, sprites[1], sprites[2])
      [] force.kind = "DistanceForce" -> DistanceForceForces(force, sprites[1], sprites[2])

\* The sprite a reference <<layer, index>> names
SpriteAt(st, ref) == st[ref[1]][ref[2]]

\* `sprite.velocity += delta_vel`: numpy adds in place, so the array object
\* stored in the sprite changes, and with it the velocity of every sprite
\* that stores the same array object (vel_id is the identity of the array).
InPlaceAddVelocity(st, ref, delta_vel) ==
    LET id == SpriteAt(st, ref).vel_id
    IN  [l \in DOMAIN st |->
            [i \in 1..Len(st[l]) |->
                IF st[l][i].vel_id = id
                THEN SetVelocity(st[l][i], VAdd(st[l][i].velocity, delta_vel))
                ELSE st[l][i]]]

\* The loop body of the step with the infinite-mass guard left out.
NewtonianUpdate_NoGuard(st, ref, force, updates_per_env_step) ==
    InPlaceAddVelocity(st, ref,
        VDiv(force, Mul(SpriteAt(st, ref).mass, I(updates_per_env_step))))

\* The loop body of the step with the force divided by the mass alone.
NewtonianUpdate_NoSubstepScaling(st, ref, force, updates_per_env_step) ==
    IF ~IsFinite(SpriteAt(st, ref).mass) THEN st
    ELSE InPlaceAddVelocity(st, ref, VDiv(force, SpriteAt(st, ref).mass))

\* AbstractNewtonianForce.step, lines 66-74: the loop body for one sprite
\* and the force computed for it.
NewtonianUpdate(st, ref, force, updates_per_env_step) ==
    IF ~IsFinite(SpriteAt(st, ref).mass) THEN st
    ELSE InPlaceAddVelocity(st, ref,
             VDiv(force, Mul(SpriteAt(st, ref).mass, I(updates_per_env_step))))

RECURSIVE NewtonianLoop(_, _, _, _, _)
\* AbstractNewtonianForce.step, line 66: for sprite, force in zip(...)
NewtonianLoop(st, refs, forces, updates_per_env_step, i) ==
    IF i > Len(refs) THEN st
    ELSE NewtonianLoop(
             NewtonianUpdate(st, refs[i], forces[i], updates_per_env_step),
             refs, forces, updates_per_env_step, i + 1)

\* AbstractNewtonianForce.step
NewtonianForceStep(st, force, refs, updates_per_env_step, draw) ==
    LET sprites == [i \in 1..Len(refs) |-> SpriteAt(st, refs[i])]
        forces == ComputeForces(force, sprites, draw)
    IN  NewtonianLoop(st, refs, forces, updates_per_env_step, 1)

(***************************************************************************)
(* Rigid tethers (src/moog/physics/tether_physics.py)                      *)
(***************************************************************************)
RECURSIVE SumQ(_)
\* sum([...]) of scalars: Python's sum starts from 0
SumQ(xs) == IF Len(xs) = 0 THEN Zero ELSE Add(SumQ(SubSeq(xs, 1, Len(xs) - 1)), xs[Len(xs)])

RECURSIVE SumV(_)
\* sum([...]) of arrays
SumV(vs) == IF Len(vs) = 0 THEN VZero ELSE VAdd(SumV(SubSeq(vs, 1, Len(vs) - 1)), vs[Len(vs)])

\* _change_rotation_coordinates
ChangeRotationCoordinates(sprite, origin, origin_velocity, updates_per_env_step) ==
    LET delta_position == VDiv(sprite.velocity, I(updates_per_env_step))
        parallel_0 == VSub(VAdd(sprite.position, VScale(Q(1, 2), delta_position)), origin)
        radius == Norm(parallel_0)
        parallel == VDiv(parallel_0, radius)
        perpendicular == <<Neg(parallel[2]), parallel[1]>>
        perp_vel == Dot(VSub(sprite.velocity, origin_velocity), perpendicular)
        angular_momentum ==
            Add(Mul(Mul(perp_vel, sprite.mass), radius),
                Mul(sprite.angle_vel, MomentOfInertia(sprite)))
        moment_of_inertia ==
            Add(MomentOfInertia(sprite), Mul(Mul(sprite.mass, radius), radius))
    IN  [angular_momentum |-> angular_momentum,
         moment_of_inertia |-> moment_of_inertia,
         radius |-> radius, perpendicular |-> perpendicular]

\* The identities of the velocity arrays the sprites of a state hold
VelIds(st) == UNION {{st[l][i].vel_id : i \in 1..Len(st[l])} : l \in DOMAIN st}

\* The identity of a newly allocated array
FreshId(st) == 1 + CHOOSE m \in VelIds(st) \cup {0} : \A k \in VelIds(st) : k <= m

\* _tether_sprites: refs names the sprites, anchor is <<>> for None and
\* <<point>> for an anchor point.
TetherSprites(st, refs, updates_per_env_step, update_angle_vel, anchor) ==
    LET n == Len(refs)
        sp == [k \in 1..n |-> SpriteAt(st, refs[k])]
        total_mass == SumQ([k \in 1..n |-> sp[k].mass])
        center_of_mass_0 ==
            VDiv(SumV([k \in 1..n |-> VScale(sp[k].mass, sp[k].position)]), total_mass)
        total_momentum == SumV([k \in 1..n |-> VScale(sp[k].mass, sp[k].velocity)])
        total_velocity_0 == VDiv(total_momentum, total_mass)
        center_of_mass == IF anchor # <<>> THEN anchor[1] ELSE center_of_mass_0
        total_velocity == IF anchor # <<>> THEN VZero ELSE total_velocity_0
        rc == [k \in 1..n |->
                 ChangeRotationCoordinates(sp[k], center_of_mass, total_velocity, updates_per_env_step)]
        total_angular_momentum == SumQ([k \in 1..n |-> rc[k].angular_momentum])
        total_moment_of_inertia == SumQ([k \in 1..n |-> rc[k].moment_of_inertia])
        total_angular_velocity == Div(total_angular_momentum, total_moment_of_inertia)
        fresh == FreshId(st)
        Slot(l, i) == IF \E k \in 1..n : refs[k] = <<l, i>>
                      THEN CHOOSE k \in 1..n : refs[k] = <<l, i>> ELSE 0
    IN  IF n = 0 THEN st
        ELSE IF total_mass \in {Inf, NegInf} THEN st
        ELSE [l \in DOMAIN st |->
                [i \in 1..Len(st[l]) |->
                    LET k == Slot(l, i)
                    IN  IF k = 0 THEN st[l][i]
                        ELSE IF update_angle_vel
                        THEN [st[l][i] EXCEPT
                                 !.velocity = VAdd(total_velocity,
                                     VScale(total_angular_velocity,
                                            VScale(rc[k].radius, rc[k].perpendicular))),
                                 !.vel_id = fresh + k,
                                 !.angle_vel = total_angular_velocity]
                        ELSE [st[l][i] EXCEPT
                                 !.velocity = total_velocity,
                                 !.vel_id = fresh,
                                 !.angle_vel = Zero]]]

\* The sprites of a layer, by reference
LayerRefs(st, layer) == [i \in 1..Len(st[layer]) |-> <<layer, i>>]

RECURSIVE Chain(_)
\* itertools.chain(*seqs)
Chain(seqs) == IF Len(seqs) = 0 THEN <<>> ELSE Head(seqs) \o Chain(Tail(seqs))

\* Tether.apply_physics
TetherApplyPhysics(st, tether, updates_per_env_step) ==
    TetherSprites(st,
        Chain([k \in 1..Len(tether.layer_names) |-> LayerRefs(st, tether.layer_names[k])]),
        updates_per_env_step, tether.update_angle_vel, tether.anchor)

\* The i'th sprite of every listed layer: one tuple of zip(*layer_sprites)
ZippedRefs(layer_names, i) == [k \in 1..Len(layer_names) |-> <<layer_names[k], i>>]

\* The number of tuples zip(*layer_sprites) yields
ZippedCount(st, layer_names) ==
    IF Len(layer_names) = 0 THEN 0
    ELSE CHOOSE c \in {Len(st[layer_names[k]]) : k \in 1..Len(layer_names)} :
             \A k \in 1..Len(layer_names) : c <= Len(st[layer_names[k]])

RECURSIVE ZippedLoop(_, _, _, _)
\* TetherZippedLayers.apply_physics: the loop over zip(*layer_sprites), from
\* tuple i on
ZippedLoop(st, tether, updates_per_env_step, i) ==
    IF i > ZippedCount(st, tether.layer_names) THEN st
    ELSE ZippedLoop(
             TetherSprites(st, ZippedRefs(tether.layer_names, i), updates_per_env_step,
                           tether.update_angle_vel, tether.anchor),
             tether, updates_per_env_step, i + 1)

\* TetherZippedLayers.apply_physics with all the listed sprites in one group
TetherZippedApplyPhysics_OneGroup(st, tether, updates_per_env_step) ==
    LET layer_lengths == [k \in 1..Len(tether.layer_names) |-> Len(st[tether.layer_names[k]])]
    IN  IF ~(\A k \in 1..Len(layer_lengths) : layer_lengths[k] = layer_lengths[1])
        THEN [raised |-> TRUE, state |-> st]
        ELSE [raised |-> FALSE, state |-> TetherApplyPhysics(st, tether, updates_per_env_step)]

\* TetherZippedLayers.apply_physics: raised is the ValueError, state is the
\* environment state the call leaves.
TetherZippedApplyPhysics(st, tether, updates_per_env_step) ==
    LET layer_lengths == [k \in 1..Len(tether.layer_names) |-> Len(st[tether.layer_names[k]])]
    IN  IF ~(\A k \in 1..Len(layer_lengths) : layer_lengths[k] = layer_lengths[1])
        THEN [raised |-> TRUE, state |-> st]
        ELSE [raised |-> FALSE, state |-> ZippedLoop(st, tether, updates_per_env_step, 1)]

(***************************************************************************)
(* State                                                                   *)
(***************************************************************************)
VARIABLES
    sprite_0,    \* first argument of Collision.step
    sprite_1,    \* second argument of Collision.step
    collision,   \* the Collision object: elasticity, symmetric,
                 \* update_angle_vel, max_recursion_depth
    contact,     \* the collision event of the current resolution
    pre,         \* the two sprites as they were before the resolution
    cpc,         \* where the resolution stands
    state,       \* the environment state: layer name -> sequence of sprites
    physics,     \* the Physics object: forces, corrective_physics,
                 \* updates_per_env_step
    ppc,         \* where Physics.step stands: the sub-step and the next
                 \* operation of apply_physics
    plog,        \* history: the operations Physics.step has performed
    sprite,      \* the sprite a sequence of updates is applied to
    spc,         \* the last update of the sprite and how it ended
    env,         \* the Environment object and the components it holds, or
                 \* the PhaseSequence object of SpecPhases
    stack,       \* SimulationEnvironment.stack
    elog         \* history: the last call on the environment and what it
                 \* returned, and the environment as it is without the
                 \* simulation calls

collisionVars == <<sprite_0, sprite_1, collision, contact, pre, cpc>>

physicsVars == <<state, physics, ppc, plog>>

spriteVars == <<sprite, spc>>

environmentVars == <<env, stack, elog>>

vars == <<collisionVars, physicsVars, spriteVars, environmentVars>>

\* The variables a component leaves alone
exceptCollision == <<physicsVars, spriteVars, environmentVars>>
exceptPhysics == <<collisionVars, spriteVars, environmentVars>>
exceptSprite == <<collisionVars, physicsVars, environmentVars>>
exceptEnvironment == <<collisionVars, physicsVars, spriteVars>>

\* The variables of the components a specification does not exercise.
IdleCollision ==
    /\ sprite_0 = <<>>
    /\ sprite_1 = <<>>
    /\ collision = <<>>
    /\ contact = <<>>
    /\ pre = <<>>
    /\ cpc = "idle"

IdlePhysics ==
    /\ state = <<>>
    /\ physics = <<>>
    /\ ppc = <<>>
    /\ plog = <<>>

IdleSprite == sprite = <<>> /\ spc = <<>>

IdleEnvironment == env = <<>> /\ stack = <<>> /\ elog = <<>>

OnlyCollision == IdlePhysics /\ IdleSprite /\ IdleEnvironment
OnlyPhysics == IdleCollision /\ IdleSprite /\ IdleEnvironment
OnlySprite == IdleCollision /\ IdlePhysics /\ IdleEnvironment
OnlyEnvironment == IdleCollision /\ IdlePhysics /\ IdleSprite

NoContact == [kind |-> "none"]

(***************************************************************************)
(* SpecImpulse: the contact branch of Collision.step on every combination  *)
(* of sprites, contact and Collision parameters drawn from bounded sets.   *)
(***************************************************************************)
MaxMass == 2

MaxVel == 1

Masses == {I(m) : m \in 1..MaxMass} \cup {Inf}

Elasticities == {Zero, Q(1, 2), One}

\* Unit normals, and one vector that is not a unit vector.
UnitNormals == {V(1, 0), V(0, -1), <<Q(3, 5), Q(4, 5)>>}

Normals == UnitNormals \cup {V(2, 0)}

ImpulseSprite(pos, vel, w, m) ==
    [position |-> pos, velocity |-> vel, angle_vel |-> w, mass |-> m,
     xy_inertia |-> <<Q(1, 3), Q(4, 3)>>, path |-> <<>>]

\* The contact points lie on neither centroid, before or after the
\* separation: a contact is a point of a sprite's boundary.
InitImpulse ==
    /\ \E m \in Masses, vx \in -MaxVel..MaxVel, w \in {0, 1} :
          sprite_0 = ImpulseSprite(V(0, 0), V(vx, 1), I(w), m)
    /\ \E m \in Masses, b \in {0, 1} :
          sprite_1 = ImpulseSprite(V(3, 1), V(-b, b), I(b), m)
    /\ \E e \in Elasticities, sym \in BOOLEAN, upd \in BOOLEAN :
          collision = [elasticity |-> e, symmetric |-> sym,
                       update_angle_vel |-> upd, max_recursion_depth |-> 0]
    /\ \E pt \in {V(1, 0), V(1, 1)}, n \in Normals :
          contact = [kind |-> "past", point |-> pt, normal |-> n,
                     perpendicular |-> VScale(Q(1, 2), n)]
    /\ pre = <<sprite_0, sprite_1>>
    /\ cpc = "ready"
    /\ OnlyCollision

\* Collision.step, lines 527-563, on the drawn contact.
Resolve ==
    /\ cpc = "ready"
    /\ LET out == ResolveContact(sprite_0, sprite_1, contact.point,
                                 contact.normal, contact.perpendicular,
                                 collision.elasticity, collision.symmetric,
                                 collision.update_angle_vel)
       IN  /\ sprite_0' = out.s0
           /\ sprite_1' = out.s1
           /\ cpc' = IF out.ok THEN "resolved" ELSE "raised"
    /\ UNCHANGED <<collision, contact, pre>>
    /\ UNCHANGED exceptCollision

NextImpulse == Resolve

SpecImpulse == InitImpulse /\ [][NextImpulse]_vars

\* Total linear momentum m_0 * v_0 + m_1 * v_1
Momentum(s0, s1) ==
    VAdd(VScale(s0.mass, s0.velocity), VScale(s1.mass, s1.velocity))

BothMassesFinite == IsFinite(sprite_0.mass) /\ IsFinite(sprite_1.mass)

\* C4: a symmetric collision between two finite-mass sprites leaves the
\* total linear momentum m_0*v_0 + m_1*v_1 unchanged, for every elasticity
\* and in both the rotational and the non-rotational impulse model.
C4_MomentumConserved ==
    (cpc = "resolved" /\ collision.symmetric /\ BothMassesFinite)
        => Momentum(sprite_0, sprite_1) = Momentum(pre[1], pre[2])

\* A symmetric collision of two sprites of different finite mass that
\* changed both velocities.
C4_Witness ==
    /\ cpc = "resolved"
    /\ collision.symmetric
    /\ BothMassesFinite
    /\ sprite_0.mass # sprite_1.mass
    /\ ~collision.update_angle_vel
    /\ collision.elasticity = Q(1, 2)
    /\ sprite_0.velocity # pre[1].velocity
    /\ sprite_1.velocity # pre[2].velocity

\* C19: a contact normal whose norm is not 1 within the tolerance makes the
\* resolution raise, and the velocities and angular velocities of both
\* sprites are then what they were, in the non-rotational model and in the
\* rotational model.
C19_NonUnitNormalRaises ==
    (cpc # "ready" /\ ~NormalIsUnit(contact.normal)) =>
        /\ cpc = "raised"
        /\ sprite_0.velocity = pre[1].velocity
        /\ sprite_0.angle_vel = pre[1].angle_vel
        /\ sprite_1.velocity = pre[2].velocity
        /\ sprite_1.angle_vel = pre[2].angle_vel

\* The non-rotational symmetric model has resolved a contact of two sprites
\* of finite mass
ResolvedSymmetricPlain ==
    /\ cpc = "resolved"
    /\ collision.symmetric
    /\ ~collision.update_angle_vel
    /\ BothMassesFinite

\* mover moves along the normal n and rests is at rest
HeadOn(mover, rests, n) ==
    /\ rests.velocity = VZero
    /\ mover.velocity # VZero
    /\ Cross(mover.velocity, n) = Zero

\* C12: two sprites of equal mass, symmetric = True, elasticity = 1 and
\* update_angle_vel = False: in a head-on collision, one sprite at rest and
\* the other moving along the normal of the contact (for two circles of one
\* radius the line of centres), the normal velocities are exchanged: the
\* sprite at rest leaves with the velocity of the mover and the mover stops.
C12_HeadOnExchange ==
    (ResolvedSymmetricPlain /\ collision.elasticity = One /\ sprite_0.mass = sprite_1.mass) =>
        /\ HeadOn(pre[1], pre[2], contact.normal) =>
              sprite_0.velocity = VZero /\ sprite_1.velocity = pre[1].velocity
        /\ HeadOn(pre[2], pre[1], contact.normal) =>
              sprite_1.velocity = VZero /\ sprite_0.velocity = pre[2].velocity

\* Such a head-on collision has been resolved
C12_Witness ==
    /\ ResolvedSymmetricPlain
    /\ collision.elasticity = One
    /\ sprite_0.mass = sprite_1.mass
    /\ HeadOn(pre[1], pre[2], contact.normal)
    /\ sprite_1.velocity = pre[1].velocity

\* 0.5 * m * |v|^2 summed over the two sprites
KineticEnergy(s0, s1) ==
    Add(Mul(Q(1, 2), Mul(s0.mass, NormSq(s0.velocity))),
        Mul(Q(1, 2), Mul(s1.mass, NormSq(s1.velocity))))

C13_WitnessElastic ==
    /\ ResolvedSymmetricPlain
    /\ sprite_0.mass # sprite_1.mass
    /\ collision.elasticity = One
    /\ sprite_0.velocity # pre[1].velocity
    /\ sprite_1.velocity # pre[2].velocity

\* Second sprites with the velocity and the angular velocity of s, and with
\* a finite mass, a rotational inertia and a position (and so a lever arm
\* of the contact) of their own
SecondBodiesLike(s) ==
    {[s EXCEPT !.mass = m, !.xy_inertia = VScale(k, @), !.position = VAdd(@, d)] :
        m \in {I(n) : n \in 1..MaxMass}, k \in {One, I(2)}, d \in {VZero, V(0, 1)}}

\* C14: in the asymmetric rotational model sprite_1 counts as having
\* infinite mass and infinite moment of inertia: with the contact point, the
\* normal, the elasticity and sprite_0 fixed, the velocity and the angular
\* velocity of sprite_0 after the collision are the same for any two
\* second sprites of the same velocity and angular velocity, whatever their
\* finite mass, moment of inertia and lever arm.
C14_SecondBodyDoesNotMatter ==
    (cpc = "resolved" /\ ~collision.symmetric /\ collision.update_angle_vel /\ BothMassesFinite) =>
        \A other \in SecondBodiesLike(pre[2]) :
            \A out \in {ResolveContact(pre[1], other, contact.point, contact.normal,
                                       contact.perpendicular, collision.elasticity,
                                       FALSE, TRUE)} :
                /\ out.s0.velocity = sprite_0.velocity
                /\ out.s0.angle_vel = sprite_0.angle_vel

\* C3: in an asymmetric collision the second sprite is immovable: its
\* position, velocity and angular velocity after the contact is resolved are
\* what they were before, in the rotational and the non-rotational model,
\* for every elasticity, also when the mass of the second sprite is
\* infinite.
C3_SecondBodyUnchanged ==
    (cpc = "resolved" /\ ~collision.symmetric) => sprite_1 = pre[2]

\* What holds of C3: the second sprite is unchanged when its mass is finite
\* or the angular velocities are not updated.
C3_SecondBodyUnchangedUnlessInfiniteRotational ==
    (cpc = "resolved" /\ ~collision.symmetric
     /\ (IsFinite(sprite_1.mass) \/ ~collision.update_angle_vel))
        => sprite_1 = pre[2]

\* The overlap margin of the contact and the displacements of the sprites
Margin == contact.perpendicular
Moved_0 == VSub(sprite_0.position, pre[1].position)
Moved_1 == VSub(sprite_1.position, pre[2].position)

\* C9 as stated: the sprites are separated along the overlap margin p
\* scaled by (1 + epsilon): the first sprite alone by -(1 + epsilon) p when
\* asymmetric, each sprite by 0.5 (1 + epsilon) p in opposite directions
\* when symmetric, a relative separation of (1 + epsilon) p in both cases.
C9_SeparationAsStated ==
    cpc = "resolved" =>
        /\ ~collision.symmetric =>
              /\ Moved_0 = VScale(Neg(Add(One, EPSILON)), Margin)
              /\ Moved_1 = VZero
        /\ collision.symmetric =>
              /\ Moved_0 = VScale(Neg(Mul(Q(1, 2), Add(One, EPSILON))), Margin)
              /\ Moved_1 = VScale(Mul(Q(1, 2), Add(One, EPSILON)), Margin)
        /\ VSub(Moved_1, Moved_0) = VScale(Add(One, EPSILON), Margin)

\* C9: the sprites are separated along the overlap margin p: the first
\* sprite alone by -(1 + epsilon) p when asymmetric, a relative separation
\* of (1 + epsilon) p; each sprite by (0.5 + epsilon) p in opposite
\* directions when symmetric, a relative separation of (1 + 2 epsilon) p.
C9_Separation ==
    cpc = "resolved" =>
        /\ ~collision.symmetric =>
              /\ Moved_0 = VScale(Neg(Add(One, EPSILON)), Margin)
              /\ Moved_1 = VZero
              /\ VSub(Moved_1, Moved_0) = VScale(Add(One, EPSILON), Margin)
        /\ collision.symmetric =>
              /\ Moved_0 = VScale(Neg(Add(Q(1, 2), EPSILON)), Margin)
              /\ Moved_1 = VScale(Add(Q(1, 2), EPSILON), Margin)
              /\ VSub(Moved_1, Moved_0) = VScale(Add(One, Mul(I(2), EPSILON)), Margin)

\* A symmetric contact with a margin that is not parallel to an axis has
\* been resolved, and both sprites have moved.
C9_Witness ==
    /\ cpc = "resolved"
    /\ collision.symmetric
    /\ Margin = VScale(Q(1, 2), <<Q(3, 5), Q(4, 5)>>)
    /\ Moved_0 # VZero
    /\ Moved_1 # VZero

(***************************************************************************)
(* Physics.step (src/moog/physics/physics.py, abstract_physics.py)         *)
(***************************************************************************)
\* Sprite.update_pos_from_vel
UpdatePosFromVel(s, delta_t) ==
    LET moved == SetPosition(s, VAdd(s.position, VScale(delta_t, s.velocity)))
    IN  IF s.angle_vel # Zero
        THEN SetAngle(moved, AngleAdd(moved.angle, Angle(Mul(delta_t, s.angle_vel), 0)))
        ELSE moved

\* Physics._args_to_iterables: a selector is a layer name, [str |-> name],
\* or a list of layer names, [list |-> names].
ArgsToIterables(args_iterables) ==
    [k \in 1..Len(args_iterables) |->
        IF "str" \in DOMAIN args_iterables[k]
        THEN <<args_iterables[k].str>>
        ELSE args_iterables[k].list]

RECURSIVE Product(_)
\* itertools.product(*seqs), in the order itertools yields
Product(seqs) ==
    IF Len(seqs) = 0 THEN << <<>> >>
    ELSE LET h == Head(seqs)
             rest == Product(Tail(seqs))
         IN  Chain([i \in 1..Len(h) |->
                      [j \in 1..Len(rest) |-> <<h[i]>> \o rest[j]]])

\* The keys of the environment state, in the order of the dictionary
LayerOrder == <<"a", "b">>

\* Physics.apply_physics, lines 92-108: the force.step calls, in order
ForceCalls(phys, st) ==
    Chain([f \in 1..Len(phys.forces) |->
        LET args_combinations == Product(ArgsToIterables(phys.forces[f].args))
        IN  Chain([c \in 1..Len(args_combinations) |->
                LET args == args_combinations[c]
                    tuples == Product([k \in 1..Len(args) |-> LayerRefs(st, args[k])])
                IN  [t \in 1..Len(tuples) |->
                        [kind |-> "force", index |-> f, sprites |-> tuples[t]]]])])

\* Physics.apply_physics, lines 110-111: the corrective calls, in order
CorrectiveCalls(phys) ==
    [c \in 1..Len(phys.corrective_physics) |->
        [kind |-> "corrective", index |-> c, sprites |-> <<>>]]

\* Physics.apply_physics, lines 114-117: the update_pos_from_vel calls
IntegrateCalls(st) ==
    Chain([l \in 1..Len(LayerOrder) |->
        [i \in 1..Len(st[LayerOrder[l]]) |->
            [kind |-> "integrate", index |-> 0, sprites |-> << <<LayerOrder[l], i>> >>]]])

\* apply_physics with the corrective physics applied before the forces
ApplyPhysicsCalls_CorrectiveFirst(phys, st) ==
    CorrectiveCalls(phys) \o ForceCalls(phys, st) \o IntegrateCalls(st)

\* Physics.apply_physics: the calls one application makes, in order
ApplyPhysicsCalls(phys, st) ==
    ForceCalls(phys, st) \o CorrectiveCalls(phys) \o IntegrateCalls(st)

MaxSubsteps == 2
MaxEnvSteps == 1

\* The forces, the tethers and the integration never read the vertices of
\* a sprite: the sprites of this specification carry an empty path.
PhysicsSprite(y, vy, w, m, id) ==
    [position |-> <<Zero, y>>, velocity |-> <<Zero, vy>>, vel_id |-> id,
     angle |-> Angle(Zero, 0), angle_vel |-> w, mass |-> m,
     xy_inertia |-> <<Q(1, 3), Q(1, 3)>>, path |-> <<>>]

Layer(name) == [str |-> name]
Layers(names) == [list |-> names]

DownGravity(g) == [kind |-> "DownGravity", g |-> g]
Gravity(g, symmetric) == [kind |-> "Gravity", g |-> g, symmetric |-> symmetric]
Drag(c) == [kind |-> "Drag", coeff_friction |-> c]
KineticFriction(c) == [kind |-> "KineticFriction", coeff_friction |-> c]
RandomForce(m) == [kind |-> "RandomForce", max_force_magnitude |-> m]
DistanceForce(fn, symmetric) == [kind |-> "DistanceForce", force_fn |-> fn, symmetric |-> symmetric]
SpringForceFn(k, e) == [kind |-> "spring", spring_constant |-> k, equilibrium |-> e]
LinearForceFn(z, sl, far, near) == [kind |-> "linear", zero_intercept |-> z, slope |-> sl, apply_distant_force |-> far, apply_nearby_force |-> near]
Tether(names, upd, anchor) == [layer_names |-> names, update_angle_vel |-> upd, anchor |-> anchor]
Force(force, args) == [force |-> force, args |-> args]

\* The Physics objects the model constructs: every kind of force, one- and
\* two-body selectors, names and lists of names, no, one and two tethers.
PhysicsConfigs ==
    { [forces |-> <<Force(DownGravity(I(-1)), <<Layers(<<"a", "b">>)>>)>>,
       corrective_physics |-> <<>>],
      [forces |-> <<Force(Drag(Q(1, 2)), <<Layers(<<"a", "b">>)>>),
                    Force(KineticFriction(One), <<Layer("b")>>)>>,
       corrective_physics |-> <<Tether(<<"b">>, FALSE, <<>>)>>],
      [forces |-> <<Force(Gravity(I(-1), TRUE), <<Layer("a"), Layer("b")>>),
                    Force(DownGravity(I(-1)), <<Layer("b")>>)>>,
       corrective_physics |-> <<Tether(<<"a">>, FALSE, <<>>)>>],
      [forces |-> <<Force(RandomForce(One), <<Layer("a")>>)>>,
       corrective_physics |-> <<Tether(<<"a", "b">>, FALSE, <<>>),
                                Tether(<<"b">>, TRUE, <<VZero>>)>>],
      [forces |-> <<Force(DistanceForce(SpringForceFn(One, One), FALSE), <<Layer("b"), Layer("a")>>),
                    Force(DistanceForce(LinearForceFn(I(2), I(-1), FALSE, TRUE), TRUE), <<Layer("a"), Layers(<<"b">>)>>)>>,
       corrective_physics |-> <<>>],
      [forces |-> <<Force(DownGravity(I(-1)), <<Layer("a")>>)>>,
       corrective_physics |-> <<Tether(<<"a">>, FALSE, <<>>)>>] }

\* The values np.random.uniform can return, sampled
RandomDraws ==
    {[r |-> Zero, cs |-> V(1, 0)], [r |-> One, cs |-> V(0, 1)],
     [r |-> Q(1, 2), cs |-> V(0, -1)]}

InitPhysics ==
    /\ \E m1 \in Masses, m2 \in {One, Inf, NaN}, v \in 0..MaxVel :
          state = [l \in {"a", "b"} |->
                      IF l = "a"
                      THEN <<PhysicsSprite(Zero, I(v), One, m1, 1), PhysicsSprite(I(2), Zero, Zero, m2, 2)>>
                      ELSE <<PhysicsSprite(I(5), I(-1), Zero, One, 3)>>]
    /\ \E c \in PhysicsConfigs, n \in 1..MaxSubsteps :
          physics = [forces |-> c.forces, corrective_physics |-> c.corrective_physics,
                     updates_per_env_step |-> n]
    /\ ppc = [status |-> "ready", substep |-> 0, k |-> 0, steps |-> 0,
              start |-> state, sub_start |-> state, before |-> state]
    /\ plog = <<>>
    /\ OnlyPhysics

\* The calls of the sub-step in progress and the one to make next
Calls == ApplyPhysicsCalls(physics, state)
CurrentCall == Calls[ppc.k]
Running(kind) == ppc.status = "running" /\ CurrentCall.kind = kind

\* The position in the loops after the current call returns, st being the
\* state it leaves: the next call of apply_physics, or the next iteration of
\* the loop of AbstractPhysics.step, or its return.
AfterCall(st) ==
    IF ppc.k < Len(Calls)
    THEN [ppc EXCEPT !.k = @ + 1, !.before = state]
    ELSE IF ppc.substep < physics.updates_per_env_step
    THEN [ppc EXCEPT !.substep = @ + 1, !.k = 1, !.before = state, !.sub_start = st]
    ELSE [ppc EXCEPT !.status = "returned", !.steps = @ + 1, !.before = state]

\* What the call passes on: the sub-step it belongs to, the call and its
\* updates_per_env_step or delta_t argument.
Logged(arg) == Append(plog, [substep |-> ppc.substep, call |-> CurrentCall, arg |-> arg])

\* AbstractPhysics.step is called
PhysicsStep ==
    /\ ppc.status \in {"ready", "returned"}
    /\ ppc.steps < MaxEnvSteps
    /\ ppc' = [ppc EXCEPT !.status = "running", !.substep = 1, !.k = 1,
                          !.start = state, !.sub_start = state, !.before = state]
    /\ plog' = <<>>
    /\ UNCHANGED <<state, physics>>
    /\ UNCHANGED exceptPhysics

\* force.step(*sprites, updates_per_env_step=...) of a deterministic force
ForceStep ==
    /\ Running("force")
    /\ physics.forces[CurrentCall.index].force.kind # "RandomForce"
    /\ state' = NewtonianForceStep(state, physics.forces[CurrentCall.index].force,
                                   CurrentCall.sprites, physics.updates_per_env_step, <<>>)
    /\ ppc' = AfterCall(state')
    /\ plog' = Logged(I(physics.updates_per_env_step))
    /\ UNCHANGED physics
    /\ UNCHANGED exceptPhysics

\* force.step(*sprites, updates_per_env_step=...) of a RandomForce
RandomForceStep ==
    /\ Running("force")
    /\ physics.forces[CurrentCall.index].force.kind = "RandomForce"
    /\ \E draw \in RandomDraws :
          state' = NewtonianForceStep(state, physics.forces[CurrentCall.index].force,
                                      CurrentCall.sprites, physics.updates_per_env_step, draw)
    /\ ppc' = AfterCall(state')
    /\ plog' = Logged(I(physics.updates_per_env_step))
    /\ UNCHANGED physics
    /\ UNCHANGED exceptPhysics

\* corrective_physics.apply_physics(state, updates_per_env_step)
CorrectiveStep ==
    /\ Running("corrective")
    /\ state' = TetherApplyPhysics(state, physics.corrective_physics[CurrentCall.index],
                                   physics.updates_per_env_step)
    /\ ppc' = AfterCall(state')
    /\ plog' = Logged(I(physics.updates_per_env_step))
    /\ UNCHANGED physics
    /\ UNCHANGED exceptPhysics

\* sprite.update_pos_from_vel(delta_t=delta_t)
IntegrateStep ==
    /\ Running("integrate")
    /\ LET ref == CurrentCall.sprites[1]
           delta_t == Div(One, I(physics.updates_per_env_step))
       IN  /\ state' = [state EXCEPT ![ref[1]][ref[2]] = UpdatePosFromVel(@, delta_t)]
           /\ plog' = Logged(delta_t)
    /\ ppc' = AfterCall(state')
    /\ UNCHANGED physics
    /\ UNCHANGED exceptPhysics

NextPhysics ==
    \/ PhysicsStep
    \/ ForceStep
    \/ RandomForceStep
    \/ CorrectiveStep
    \/ IntegrateStep

SpecPhysics == InitPhysics /\ [][NextPhysics]_vars

(***************************************************************************)
(* Properties of Physics.step                                              *)
(***************************************************************************)
Range(f) == {f[x] : x \in DOMAIN f}
Last(seq) == seq[Len(seq)]
AllRefs == UNION {{<<l, i>> : i \in 1..Len(state[l])} : l \in DOMAIN state}
N == physics.updates_per_env_step

\* The position of a kind of call in a sub-step
Rank(kind) == CASE kind = "force" -> 1 [] kind = "corrective" -> 2 [] kind = "integrate" -> 3

\* The calls of one kind logged for sub-step t
EntriesOf(t, kind) == {j \in DOMAIN plog : plog[j].substep = t /\ plog[j].call.kind = kind}

\* The sprites a selector of a force names
SelectedRefs(arg) ==
    {r \in AllRefs : r[1] \in (IF "str" \in DOMAIN arg THEN {arg.str} ELSE Range(arg.list))}

\* The Cartesian product of the selectors of force f
TuplesFor(f) ==
    LET args == physics.forces[f].args
    IN  IF Len(args) = 1 THEN {<<r>> : r \in SelectedRefs(args[1])}
        ELSE {<<r1, r2>> : r1 \in SelectedRefs(args[1]), r2 \in SelectedRefs(args[2])}

ExpectedForceTargets == UNION {{<<f, t>> : t \in TuplesFor(f)} : f \in DOMAIN physics.forces}

\* Sub-step t has applied every force to every tuple of the product, once
ForcesComplete(t) ==
    /\ {<<plog[j].call.index, plog[j].call.sprites>> : j \in EntriesOf(t, "force")} = ExpectedForceTargets
    /\ Cardinality(EntriesOf(t, "force")) = Cardinality(ExpectedForceTargets)

\* Sub-step t has run every corrective physics object, once
CorrectivesComplete(t) ==
    /\ {plog[j].call.index : j \in EntriesOf(t, "corrective")} = DOMAIN physics.corrective_physics
    /\ Cardinality(EntriesOf(t, "corrective")) = Len(physics.corrective_physics)

\* Sub-step t has integrated every sprite, once
IntegrationComplete(t) ==
    /\ {plog[j].call.sprites[1] : j \in EntriesOf(t, "integrate")} = AllRefs
    /\ Cardinality(EntriesOf(t, "integrate")) = Cardinality(AllRefs)

Positions(st) == [r \in AllRefs |-> SpriteAt(st, r).position]

\* C1: Physics.step with updates_per_env_step = N performs exactly N
\* sub-steps; in every sub-step all forces are applied over the Cartesian
\* product of their selectors before any corrective physics runs, and every
\* corrective physics runs before any sprite is integrated; every sprite is
\* integrated exactly once per sub-step with delta_t = 1/N; forces and
\* correctives are called with the positions the sub-step started with.
C1_SubstepOrder ==
    (ppc.status \in {"running", "returned"}) =>
        /\ \A i, j \in DOMAIN plog : i < j =>
              \/ plog[i].substep < plog[j].substep
              \/ /\ plog[i].substep = plog[j].substep
                 /\ Rank(plog[i].call.kind) <= Rank(plog[j].call.kind)
        /\ \A j \in DOMAIN plog :
              /\ plog[j].substep \in 1..N
              /\ plog[j].call.kind # "force" => ForcesComplete(plog[j].substep)
              /\ plog[j].call.kind = "integrate" =>
                    /\ CorrectivesComplete(plog[j].substep)
                    /\ plog[j].arg = Div(One, I(N))
                    /\ \A i \in EntriesOf(plog[j].substep, "integrate") :
                          i # j => plog[i].call.sprites # plog[j].call.sprites
              /\ plog[j].substep < ppc.substep => IntegrationComplete(plog[j].substep)
        /\ (plog # <<>> /\ Last(plog).call.kind # "integrate") =>
              Positions(ppc.before) = Positions(ppc.sub_start)
        /\ ppc.status = "returned" =>
              /\ {plog[j].substep : j \in DOMAIN plog} = 1..N
              /\ \A t \in 1..N : IntegrationComplete(t)

\* A step of the largest number of sub-steps, with two forces' worth of
\* products and two corrective physics objects, has returned.
C1_Witness ==
    /\ ppc.status = "returned"
    /\ N = MaxSubsteps
    /\ Len(physics.corrective_physics) = 2
    /\ Cardinality(ExpectedForceTargets) >= 2
    /\ Len(plog) = N * (Cardinality(ExpectedForceTargets) + 2 + Cardinality(AllRefs))

\* The last call made was a force.step, and ppc.before is the state it saw
AfterForceCall == plog # <<>> /\ Last(plog).call.kind = "force"
LastForce == physics.forces[Last(plog).call.index].force

\* The sprites of the last force call, as the call saw them
SeenSprites == [k \in DOMAIN Last(plog).call.sprites |-> SpriteAt(ppc.before, Last(plog).call.sprites[k])]

\* The k-th sprite of the last force call shares its velocity array with no
\* other sprite of that call
Unshared(k) ==
    \A j \in DOMAIN SeenSprites : j # k => SeenSprites[j].vel_id # SeenSprites[k].vel_id

\* The k-th sprite of the last force call gained force / (mass * N), for
\* the forces computed from the state the call saw and some random draw
GainedDelta(k) ==
    \E draw \in RandomDraws :
        SpriteAt(state, Last(plog).call.sprites[k]).velocity =
            VAdd(SeenSprites[k].velocity,
                 VDiv(ComputeForces(LastForce, SeenSprites, draw)[k],
                      Mul(SeenSprites[k].mass, I(N))))

\* C7: AbstractNewtonianForce.step leaves the velocity of every sprite of
\* non-finite mass (infinite or NaN) unchanged, for every Newtonian force and
\* at every call of every sub-step, while the finite-mass sprites passed in
\* the same call receive their velocity delta.
C7_NonFiniteMassSkipped ==
    AfterForceCall =>
        /\ \A r \in AllRefs : ~IsFinite(SpriteAt(ppc.before, r).mass) =>
              /\ SpriteAt(state, r).velocity = SpriteAt(ppc.before, r).velocity
              /\ SpriteAt(state, r).vel_id = SpriteAt(ppc.before, r).vel_id
        /\ \A k \in DOMAIN SeenSprites :
              (IsFinite(SeenSprites[k].mass) /\ Unshared(k)) => GainedDelta(k)

\* A two-body force was just applied to a sprite of infinite mass and a
\* sprite of finite mass, and the velocity of the finite one changed.
C7_Witness ==
    /\ AfterForceCall
    /\ Len(SeenSprites) = 2
    /\ \E k \in 1..2 :
          /\ SeenSprites[k].mass = Inf
          /\ IsFinite(SeenSprites[3 - k].mass)
          /\ SpriteAt(state, Last(plog).call.sprites[3 - k]).velocity # SeenSprites[3 - k].velocity
          /\ SpriteAt(state, Last(plog).call.sprites[k]).velocity = SeenSprites[k].velocity

\* The forces that name the layer of sprite r in a selector
ForcesOn(r) ==
    {f \in DOMAIN physics.forces :
        \E k \in DOMAIN physics.forces[f].args : r \in SelectedRefs(physics.forces[f].args[k])}

\* Only forces whose value on r is constant during a step act on r
OnlyConstantForces(r) ==
    /\ ForcesOn(r) # {}
    /\ \A f \in ForcesOn(r) : physics.forces[f].force.kind = "DownGravity"

\* No corrective physics sets the velocity of r
Untethered(r) ==
    \A c \in DOMAIN physics.corrective_physics :
        r[1] \notin Range(physics.corrective_physics[c].layer_names)

\* The force calls of the sub-step in progress have all been made
ForcePhaseDone == AfterForceCall /\ ppc.status = "running" /\ CurrentCall.kind # "force"

\* No other sprite held the velocity array of r when the sub-step started
UnsharedAtSubstepStart(r) ==
    \A q \in AllRefs : q # r => SpriteAt(ppc.sub_start, q).vel_id # SpriteAt(ppc.sub_start, r).vel_id

\* The forces of one sub-step have added F / (mass * N) to the velocity of r
SubstepAddsScaledForce(r) ==
    \A f \in ForcesOn(r) :
        SpriteAt(state, r).velocity =
            VAdd(SpriteAt(ppc.sub_start, r).velocity,
                 VDiv(DownGravityForces(physics.forces[f].force, SpriteAt(ppc.sub_start, r))[1],
                      Mul(SpriteAt(ppc.sub_start, r).mass, I(N))))

\* One Physics.step has added F / mass to the velocity of r
StepAddsForceOverMass(r) ==
    \A f \in ForcesOn(r) :
        SpriteAt(state, r).velocity =
            VAdd(SpriteAt(ppc.start, r).velocity,
                 VDiv(DownGravityForces(physics.forces[f].force, SpriteAt(ppc.start, r))[1],
                      SpriteAt(ppc.start, r).mass))

\* C8: each sub-step a Newtonian force adds force / (mass * N) to the
\* velocity of a finite-mass sprite, so that one Physics.step changes the
\* velocity of a finite-mass sprite on which only a constant force F acts
\* (DownGravity) by exactly F / mass, for every number of sub-steps N.
C8_ForceScaledBySubsteps ==
    /\ ForcePhaseDone =>
          \A r \in AllRefs :
              (IsFinite(SpriteAt(ppc.sub_start, r).mass) /\ OnlyConstantForces(r))
                  => SubstepAddsScaledForce(r)
    /\ ppc.status = "returned" =>
          \A r \in AllRefs :
              (IsFinite(SpriteAt(ppc.start, r).mass) /\ OnlyConstantForces(r) /\ Untethered(r))
                  => StepAddsForceOverMass(r)

\* What holds of the scaling: the statement of C8 for the sprites that
\* share their velocity array with no other sprite.
C8_ScaledWhenUnshared ==
    /\ ForcePhaseDone =>
          \A r \in AllRefs :
              (IsFinite(SpriteAt(ppc.sub_start, r).mass) /\ OnlyConstantForces(r)
               /\ UnsharedAtSubstepStart(r))
                  => SubstepAddsScaledForce(r)
    /\ ppc.status = "returned" =>
          \A r \in AllRefs :
              (IsFinite(SpriteAt(ppc.start, r).mass) /\ OnlyConstantForces(r) /\ Untethered(r))
                  => StepAddsForceOverMass(r)

\* A step of more than one sub-step has returned, and a sprite of mass 2
\* on which only DownGravity acts has changed its velocity.
C8_Witness ==
    /\ ppc.status = "returned"
    /\ N = MaxSubsteps
    /\ \E r \in AllRefs :
          /\ OnlyConstantForces(r)
          /\ Untethered(r)
          /\ SpriteAt(ppc.start, r).mass = I(MaxMass)
          /\ SpriteAt(state, r).velocity # SpriteAt(ppc.start, r).velocity

(***************************************************************************)
(* Updates of one sprite (src/moog/sprite.py)                              *)
(***************************************************************************)
MaxUpdates == 3

\* Arrays of vertices: a rectangle, counter-clockwise, and a triangle,
\* clockwise; neither is centered on its centroid.
RectangleVertices == <<V(0, 0), V(2, 0), V(2, 1), V(0, 1)>>
TriangleVertices == <<V(0, 0), V(0, 3), V(3, 0)>>

SetPositions == {V(0, 0), V(2, 1)}
SetAngles == {Angle(Zero, 1), Angle(Zero, 2)}
SetScales == {Q(1, 2), I(2)}
SetAspectRatios == {One, I(2)}
DeltaTs == {One, Q(1, 2)}

\* The keyword arguments of the calls of update_sprite
FactorSets ==
    { [x |-> One],
      [y |-> I(2), x_vel |-> One],
      [angle |-> Angle(Zero, 1), scale |-> I(2)],
      [aspect_ratio |-> I(2), mass |-> I(2), angle_vel |-> Zero],
      [shape |-> [name |-> "square"]],
      [shape |-> [vertices |-> TriangleVertices]] }

InitSprite ==
    /\ \E shape \in {RectangleVertices, TriangleVertices}, k \in {0, 1}, sc \in {One, I(2)} :
          sprite = NewSprite(V(1, 1), [vertices |-> shape], Angle(Zero, k), sc, One,
                             V(1, 0), Zero, One)
    /\ spc = [status |-> "ready", op |-> "init", is_stored |-> FALSE, arg |-> <<>>,
              n |-> 0, before |-> sprite, array_shape |-> FALSE]
    /\ OnlySprite

\* No exception has propagated and the sequence of updates goes on
CanUpdate == spc.status # "raised" /\ spc.n < MaxUpdates

\* A call of update_sprite that gives the shape as an array of vertices
IsArrayShape(op, arg) ==
    op = "update_sprite" /\ "shape" \in DOMAIN arg /\ "vertices" \in DOMAIN arg.shape

\* The sprite and the record of the call after a call has ended: its name,
\* its argument, whether the argument was the stored object, the sprite
\* before it, and whether any call so far gave the shape as an array.
Ended(out, op, is_stored, arg) ==
    /\ \E done \in {out} :
          /\ sprite' = done.s
          /\ spc' = [status |-> IF done.ok THEN "ok" ELSE "raised", op |-> op,
                     is_stored |-> is_stored, arg |-> arg, n |-> spc.n + 1, before |-> sprite,
                     array_shape |-> spc.array_shape \/ IsArrayShape(op, arg)]
    /\ UNCHANGED exceptSprite

\* sprite.position = pos, pos a new array
PositionSet ==
    /\ CanUpdate
    /\ \E pos \in SetPositions : Ended(PositionSetter(sprite, pos, FALSE), "position", FALSE, pos)

\* sprite.position += d: numpy adds d to the stored array in place, and the
\* setter is then called with the stored array (d = 0 is also what
\* sprite.position = sprite.position does)
PositionInPlace ==
    /\ CanUpdate
    /\ \E d \in {VZero, V(1, 0)} :
          LET mutated == [sprite EXCEPT !.position = VAdd(@, d)]
          IN  Ended(PositionSetter(mutated, mutated.position, TRUE), "position", TRUE, mutated.position)

\* sprite.velocity += d: numpy adds d to the stored array in place, and the
\* setter is then called with the stored array
VelocityInPlace ==
    /\ CanUpdate
    /\ \E d \in {VZero, V(0, 1)} :
          LET mutated == [sprite EXCEPT !.velocity = VAdd(@, d)]
          IN  Ended(VelocitySetter(mutated, mutated.velocity, TRUE), "velocity", TRUE, mutated.velocity)

\* sprite.angle = a, a a new object or the stored one
AngleSet ==
    /\ CanUpdate
    /\ \/ \E a \in SetAngles : Ended(AngleSetter(sprite, a, FALSE), "angle", FALSE, a)
       \/ Ended(AngleSetter(sprite, sprite.angle, TRUE), "angle", TRUE, sprite.angle)

\* sprite.scale = s, s a new object or the stored one
ScaleSet ==
    /\ CanUpdate
    /\ \/ \E sc \in SetScales : Ended(ScaleSetter(sprite, sc, FALSE), "scale", FALSE, sc)
       \/ Ended(ScaleSetter(sprite, sprite.scale, TRUE), "scale", TRUE, sprite.scale)

\* sprite.aspect_ratio = a
AspectRatioSet ==
    /\ CanUpdate
    /\ \E a \in SetAspectRatios : Ended(AspectRatioSetter(sprite, a, FALSE), "aspect_ratio", FALSE, a)

\* sprite.update_pos_from_vel(delta_t)
UpdatePosFromVelCall ==
    /\ CanUpdate
    /\ \E delta_t \in DeltaTs : Ended(Returned(UpdatePosFromVel(sprite, delta_t)), "update_pos_from_vel", FALSE, delta_t)

\* update_sprite(sprite, **factors)
UpdateSpriteCall ==
    /\ CanUpdate
    /\ \E factors \in FactorSets : Ended(Returned(UpdateSprite(sprite, factors)), "update_sprite", FALSE, factors)

NextSprite ==
    \/ PositionSet
    \/ PositionInPlace
    \/ VelocityInPlace
    \/ AngleSet
    \/ ScaleSet
    \/ AspectRatioSet
    \/ UpdatePosFromVelCall
    \/ UpdateSpriteCall

SpecSprite == InitSprite /\ [][NextSprite]_vars

(***************************************************************************)
(* Properties of the sprite                                                *)
(***************************************************************************)
\* The centered shape path transformed by the stored scale, aspect_ratio,
\* angle and position
DerivedPath(s) == [i \in 1..Len(s.shape_path) |-> Transform(s, s.shape_path[i])]

\* C5: after any sequence of updates of a sprite that raised no error
\* (setters of position, angle, scale and aspect_ratio, update_pos_from_vel,
\* update_sprite), the cached path is the centered shape path transformed by
\* the stored scale, aspect_ratio, angle and position.
C5_PathNeverStale == spc.status = "ok" => sprite.path = DerivedPath(sprite)

\* The same as long as no call of update_sprite has given the shape as an
\* array of vertices.
C5_PathDerivedWithoutArrayShape ==
    (spc.status = "ok" /\ ~spc.array_shape) => sprite.path = DerivedPath(sprite)

\* An update by each kind of call has left the cache equal to the derived path
C5_Witness ==
    /\ spc.status = "ok"
    /\ spc.n = MaxUpdates
    /\ spc.op = "update_sprite"
    /\ ~spc.array_shape
    /\ sprite.path # spc.before.path
    /\ sprite.path = DerivedPath(sprite)

\* C6 as stated: assigning to position, angle or scale the object the
\* sprite stores for it fails with an error, for each of the three.
C6_AliasingAlwaysFails ==
    (spc.is_stored /\ spc.op \in {"position", "angle", "scale"}) => spc.status = "raised"

\* C6: assigning the stored object fails with an error for position and for
\* angle, and leaves the path as it was; for scale the assignment succeeds:
\* the scale is kept and the path is derived again.
C6_AliasingFailsForPositionAndAngle ==
    spc.is_stored =>
        /\ spc.op \in {"position", "angle"} =>
              spc.status = "raised" /\ sprite.path = spc.before.path
        /\ spc.op = "scale" =>
              /\ spc.status = "ok"
              /\ sprite.scale = spc.before.scale
              /\ \A i \in 1..Len(sprite.shape_path) : sprite.path[i] = Transform(sprite, sprite.shape_path[i])

\* The stored scale has been assigned to the scale of a sprite whose path
\* had been replaced, and the assignment returned
C6_Witness ==
    /\ spc.is_stored
    /\ spc.op = "scale"
    /\ spc.status = "ok"
    /\ sprite.path # spc.before.path

\* The stored angle has been assigned to the angle and the setter raised
C6_WitnessAngle == spc.is_stored /\ spc.op = "angle" /\ spc.status = "raised"

\* C15: the moment of inertia follows the scale: an assignment of the scale
\* multiplies it by the square of the ratio of the new scale to the old one
\* (by exactly 4 when the scale is doubled), so that after any sequence of
\* assignments it depends on the final scale only.
C15_InertiaFollowsScale ==
    (spc.status = "ok" /\ spc.op = "scale") =>
        Mul(MomentOfInertia(sprite), Mul(spc.before.scale, spc.before.scale))
            = Mul(MomentOfInertia(spc.before), Mul(sprite.scale, sprite.scale))

\* C21: assigning to the velocity the object the sprite stores as its
\* velocity (sprite.velocity += dv) raises an error, as it does for the
\* position.
C21_VelocityAliasingFails ==
    (spc.op = "velocity" /\ spc.is_stored) => spc.status = "raised"

\* C30: when the position setter raises the error of the in-place
\* assignment, the sprite is as it was before the attempted update
\* (sprite.position += d included): the position and the path are unchanged
\* and the path is the one derived from the position.
C30_RaiseLeavesSpriteUnchanged ==
    (spc.op = "position" /\ spc.status = "raised") =>
        /\ sprite.position = spc.before.position
        /\ sprite.path = spc.before.path
        /\ sprite = spc.before
        /\ (spc.before.path = DerivedPath(spc.before) => sprite.path = DerivedPath(sprite))

(***************************************************************************)
(* SpecCollision: Collision.step on two polygons, from the first call to   *)
(* the return of the last recursive one.  The angular velocities are zero  *)
(* at the call; the polygons are rectangles with edges parallel to the     *)
(* axes and one rhombus.                                                   *)
(***************************************************************************)
MaxDepth == 1

\* A rectangle of width w and height h centered on the origin, its vertices
\* counter-clockwise
Rectangle(w, h) ==
    <<<<Q(w, 2), Q(h, 2)>>, <<Q(-w, 2), Q(h, 2)>>, <<Q(-w, 2), Q(-h, 2)>>, <<Q(w, 2), Q(-h, 2)>>>>

\* A rhombus with the half diagonals a and b, centered on the origin, its
\* vertices counter-clockwise
Rhombus(a, b) == <<V(a, 0), V(0, b), V(-a, 0), V(0, -b)>>

CollisionSprite(position, vertices, velocity, mass) ==
    NewSprite(position, [vertices |-> vertices], Angle(Zero, 0), One, One, velocity, Zero, mass)

\* sprite_1 is a square of side 4 at the origin, at rest.  A scene is the
\* position, the vertices and the velocity of sprite_0.  The sides of its
\* rectangles are even and their positions pairs of odd halves, so that no
\* vertex lies on an edge of the other sprite.  In the order of the set:
\*   a corner of each sprite in the other, sprite_0 leaving downwards;
\*   the same, sprite_0 having entered from the left;
\*   a bar over the lower left corner, moving down;
\*   a bar across the square, no vertex of either in the other;
\*   a bar over the right edge, moving up and to the left;
\*   a bar over the upper right corner, moving up and to the right;
\*   a corner of each in the other, sprite_0 having entered from above;
\*   a bar over the lower left corner, moving up and to the left;
\*   a bar over the upper right corner, moving up and to the right;
\*   sprite_0 far to the right of the square;
\*   a rhombus with sides of length 5 over the square, its four corners
\*   outside the square and the corners of the square outside it.
Scenes ==
    {<<<<Q(-5, 2), Q(-3, 2)>>, Rectangle(2, 2), V(0, -1)>>,
     <<<<Q(-5, 2), Q(-3, 2)>>, Rectangle(2, 2), V(1, 0)>>,
     <<<<Q(-5, 2), Q(-3, 2)>>, Rectangle(2, 6), V(0, -1)>>,
     <<<<Q(1, 2), Q(1, 2)>>, Rectangle(2, 6), V(-1, 2)>>,
     <<<<Q(5, 2), Q(1, 2)>>, Rectangle(2, 6), V(-1, 2)>>,
     <<<<Q(3, 2), Q(5, 2)>>, Rectangle(2, 6), V(1, 2)>>,
     <<<<Q(5, 2), Q(3, 2)>>, Rectangle(2, 2), V(-1, -2)>>,
     <<<<Q(-3, 2), Q(-5, 2)>>, Rectangle(2, 6), V(-1, 2)>>,
     <<<<Q(5, 2), Q(3, 2)>>, Rectangle(2, 6), V(1, 2)>>,
     <<<<Q(13, 2), Q(1, 2)>>, Rectangle(2, 2), V(-1, 0)>>,
     <<<<Q(1, 4), Zero>>, Rhombus(4, 3), V(-1, 0)>>}

\* The angular velocities are updated only where the recursion is not
\* entered: CosSin covers the multiples of a right angle, which a sprite
\* that has turned with the angular velocity of a contact has left.
InitCollision ==
    /\ \E scene \in Scenes, m \in {One, Inf} :
          sprite_0 = CollisionSprite(scene[1], scene[2], scene[3], m)
    /\ \E same \in BOOLEAN :
          sprite_1 = IF same THEN sprite_0 ELSE CollisionSprite(VZero, Rectangle(4, 4), VZero, One)
    /\ \E e \in {Q(1, 2), One}, sym \in BOOLEAN, d \in 0..MaxDepth :
          \E upd \in IF d = 0 THEN BOOLEAN ELSE {FALSE} :
             collision = [elasticity |-> e, symmetric |-> sym,
                          update_angle_vel |-> upd, max_recursion_depth |-> d]
    /\ contact = None
    /\ pre = <<sprite_0, sprite_1>>
    /\ \E n \in {1, 2} :
          cpc = [pc |-> "call", recursion_depth |-> 0, passes |-> 0, last |-> "none",
                 same_object |-> sprite_1 = sprite_0, updates_per_env_step |-> n, exact |-> TRUE]
    /\ OnlyCollision

\* The call of Collision.step that is about to run
ThisCall ==
    CollisionStep(sprite_0, sprite_1, cpc.same_object, cpc.updates_per_env_step,
                  cpc.recursion_depth, collision)

\* The state after a call did out; next_pc is where the program is then
After(out, next_pc) ==
    /\ sprite_0' = out.s0
    /\ sprite_1' = out.s1
    /\ contact' = out.event
    /\ pre' = <<sprite_0, sprite_1>>
    /\ cpc' = [cpc EXCEPT !.pc = next_pc,
                          !.recursion_depth = IF next_pc = "call" THEN @ + 1 ELSE @,
                          !.passes = IF out.kind = "depth_limit" THEN @ ELSE @ + 1,
                          !.last = out.kind,
                          !.exact = @ /\ out.exact]
    /\ UNCHANGED collision
    /\ UNCHANGED exceptCollision

\* A call returns: the recursion is too deep, the two sprites are one
\* object, they do not overlap, or the collision is in the future.
StepReturns ==
    /\ cpc.pc = "call"
    /\ \E out \in {ThisCall} :
          /\ out.kind \in {"depth_limit", "same_sprite", "disjoint", "future"}
          /\ After(out, "returned")

\* A call moves the sprites, by _make_disjoint or by resolving a contact,
\* and calls step again one level deeper; a ValueError of the collision
\* function propagates, and an endless loop does not return.
StepRecurses ==
    /\ cpc.pc = "call"
    /\ \E out \in {ThisCall} :
          /\ out.kind \in {"made_disjoint", "resolved", "raised", "endless"}
          /\ After(out, CASE out.kind = "raised" -> "raised"
                          [] out.kind = "endless" -> "endless"
                          [] OTHER -> "call")

NextCollision == StepReturns \/ StepRecurses

SpecCollision == InitCollision /\ [][NextCollision]_vars

\* What a call of step can have done
StepKinds ==
    {"depth_limit", "same_sprite", "disjoint", "future", "made_disjoint", "resolved", "raised", "endless"}

\* The call that has been made runs.  Whatever it does with the sprites, it
\* is a step from a call to the next call or to the end, so that a call can
\* run exactly where the program is at a call.
CallRuns ==
    /\ cpc.pc = "call"
    /\ \E pc \in {"call", "returned", "raised", "endless"}, kind \in StepKinds, deeper \in {0, 1}, pass \in {0, 1}, exact \in BOOLEAN :
          cpc' = [cpc EXCEPT !.pc = pc, !.recursion_depth = @ + deeper, !.passes = @ + pass,
                             !.last = kind, !.exact = exact]

\* The interpreter goes on with a call that has been made
FairCollision == SpecCollision /\ WF_cpc(CallRuns)

(***************************************************************************)
(* Properties of Collision.step                                            *)
(***************************************************************************)
\* The calls of step on the pair have ended, by a return or by an exception
StepEnded == cpc.pc \in {"returned", "raised"}

\* No more than max_recursion_depth + 1 calls have got past the guard, and
\* the call that the guard stopped returned without an error and left the
\* sprites as the pass before it had left them.
DepthBounded ==
    /\ cpc.passes <= collision.max_recursion_depth + 1
    /\ cpc.pc # "endless"
    /\ cpc.last = "depth_limit" =>
          /\ cpc.pc = "returned"
          /\ cpc.passes = collision.max_recursion_depth + 1
          /\ <<sprite_0, sprite_1>> = pre

\* C2: Collision.step on a pair of sprites always terminates; with
\* max_recursion_depth = d at most d + 1 passes work on the pair (the first
\* call and at most d recursive ones), and the call that finds the depth
\* limit exceeded returns without an error and keeps the positions and the
\* velocities of the last pass.
C2_BoundedRecursion == []DepthBounded /\ <>StepEnded

\* With max_recursion_depth >= 1 every allowed pass has moved the sprites,
\* they still overlap, and the next call has returned at the depth limit.
C2_Witness ==
    /\ cpc.pc = "returned"
    /\ cpc.last = "depth_limit"
    /\ collision.max_recursion_depth >= 1
    /\ cpc.passes = collision.max_recursion_depth + 1
    /\ OverlapsSprite(sprite_0, sprite_1).overlap

\* What a result of _directed_collision_vectors says: no contact, a contact
\* in the past, or one whose crossing coefficient is greater than 1
DirectedKind(vectors) ==
    IF vectors.collision_point = None THEN "none"
    ELSE IF vectors.collision_normal = ScalarNaN THEN "future"
    ELSE "past"

\* C10: when one of the two directed results is a contact in the future and
\* the other one a contact in the past, the contact in the past is the
\* event that _get_collision_vectors returns and that Collision.step
\* resolves, whichever of the two has the larger displacement since the
\* collision.
C10_PastContactReturned ==
    (contact # None /\ cpc.exact) =>
        \A delta_t \in {Div(One, I(cpc.updates_per_env_step))} :
        \A kinds \in {<<DirectedKind(DirectedCollisionVectors(pre[2], pre[1], delta_t)),
                        DirectedKind(DirectedCollisionVectors(pre[1], pre[2], delta_t))>>} :
            /\ kinds = <<"past", "future">> =>
                  /\ contact.direction = 0
                  /\ DirectedKind(contact) = "past"
                  /\ cpc.last = "resolved"
            /\ kinds = <<"future", "past">> =>
                  /\ contact.direction = 1
                  /\ DirectedKind(contact) = "past"
                  /\ cpc.last = "resolved"

\* The last call took the corner fallback, and it moved a sprite
MadeDisjoint == cpc.last = "made_disjoint"

\* C11: Collision._make_disjoint changes positions only: the velocity and
\* the angular velocity of both sprites are after it what they were before
\* it, with symmetric set or not, and if symmetric is not set the position of
\* sprite_1 (and with it the whole of sprite_1) is unchanged too.
C11_MakeDisjointMovesOnly ==
    MadeDisjoint =>
        /\ sprite_0.velocity = pre[1].velocity
        /\ sprite_0.angle_vel = pre[1].angle_vel
        /\ sprite_1.velocity = pre[2].velocity
        /\ sprite_1.angle_vel = pre[2].angle_vel
        /\ sprite_0 = SetPosition(pre[1], sprite_0.position)
        /\ sprite_1 = SetPosition(pre[2], sprite_1.position)
        /\ ~collision.symmetric => sprite_1 = pre[2]

\* What the last call of _make_disjoint saw: the crossings of the edges of
\* the two sprites and the correction of each sprite on its own
CrossingsSeen == SpriteEdgeCrossings(pre[1], pre[2])
IndsSeen(side) == [k \in 1..Len(CrossingsSeen.inds_crossings) |-> CrossingsSeen.inds_crossings[k][side]]
CorrectionSeen_0 == PositionCorrection(CrossingsSeen.crossing_points, pre[1], IndsSeen(1), pre[2], IndsSeen(2))
CorrectionSeen_1 == PositionCorrection(CrossingsSeen.crossing_points, pre[2], IndsSeen(2), pre[1], IndsSeen(1))

\* The translation _make_disjoint applied: that of sprite_0, and twice that
\* of sprite_0 if the correction was shared between the two sprites
TranslationApplied ==
    VScale(IF collision.symmetric THEN I(2) ELSE One, VSub(sprite_0.position, pre[1].position))

\* t is the correction c with the margin 1 + EPSILON, in either direction
DerivedFrom(t, c) ==
    VFinite(c) /\ (t = VScale(Add(One, EPSILON), c) \/ t = VScale(Mul(I(-1), Add(One, EPSILON)), c))

\* C28: when _make_disjoint finds at least two crossings, the translation
\* it applies is derived from a finite correction whenever the correction of
\* sprite_0 or that of sprite_1 is finite; the translation is zero only when
\* neither correction is finite.
C28_FiniteCorrectionUsed ==
    (MadeDisjoint /\ Len(CrossingsSeen.inds_crossings) >= 2) =>
        IF VFinite(CorrectionSeen_0) \/ VFinite(CorrectionSeen_1)
        THEN /\ TranslationApplied # VZero
             /\ DerivedFrom(TranslationApplied, CorrectionSeen_0) \/ DerivedFrom(TranslationApplied, CorrectionSeen_1)
        ELSE TranslationApplied = VZero

\* The fallback has moved sprite_0 and left sprite_1 where it was
C11_Witness ==
    /\ MadeDisjoint
    /\ ~collision.symmetric
    /\ sprite_0.position # pre[1].position
    /\ sprite_0.velocity # VZero

\* The fallback has moved both sprites
C11_WitnessSymmetric ==
    /\ MadeDisjoint
    /\ collision.symmetric
    /\ sprite_0.position # pre[1].position
    /\ sprite_1.position # pre[2].position

(***************************************************************************)
(* SpecTether: one application of a rigid tether.  Tether.apply_physics    *)
(* or TetherZippedLayers.apply_physics is called once on an environment    *)
(* state of two layers.  The sprites lie so that every distance the tether *)
(* takes the norm of is rational.                                          *)
(***************************************************************************)
TetherZippedLayers(names, upd, anchor) == [layer_names |-> names, update_angle_vel |-> upd, anchor |-> anchor, zipped |-> TRUE]

TetherSprite(position, velocity, w, m, id) == [PhysicsSprite(Zero, Zero, w, m, id) EXCEPT !.position = position, !.velocity = velocity]

\* Sprites on the line x = 0 moving along it, the first one spinning
LineState(v, m1, m2, two) ==
    [l \in {"a", "b"} |->
        IF l = "a"
        THEN <<PhysicsSprite(Zero, I(v), One, m1, 1), PhysicsSprite(I(4), Zero, Zero, m2, 2)>>
        ELSE IF two
        THEN <<PhysicsSprite(I(8), I(-1), Zero, One, 3), PhysicsSprite(I(10), Zero, One, I(2), 4)>>
        ELSE <<PhysicsSprite(I(8), I(-1), Zero, One, 3)>>]

\* Two sprites of mass m whose half-step positions are (3, 4) and (-3, -4),
\* with opposite velocities across the line that joins them; layer b is empty
OrbitState(m, updates_per_env_step) ==
    LET half == VDiv(V(1, 0), I(2 * updates_per_env_step))
    IN  [l \in {"a", "b"} |->
            IF l = "a"
            THEN <<TetherSprite(VSub(V(3, 4), half), V(1, 0), Zero, m, 1),
                   TetherSprite(VAdd(V(-3, -4), half), V(-1, 0), One, m, 2)>>
            ELSE <<>>]

TetherStates(updates_per_env_step) ==
    {LineState(v, m1, m2, two) : v \in 0..MaxVel, m1 \in Masses, m2 \in {One, Inf}, two \in BOOLEAN}
        \cup {OrbitState(I(m), updates_per_env_step) : m \in 1..MaxMass}

Tethers ==
    UNION {{Tether(names, upd, anchor), TetherZippedLayers(names, upd, anchor)} :
              names \in {<<"a">>, <<"b">>, <<"a", "b">>}, upd \in BOOLEAN, anchor \in {<<>>, <<VZero>>}}

InitTether ==
    /\ \E n \in 1..MaxSubsteps :
          /\ state \in TetherStates(n)
          /\ \E tether \in Tethers :
                physics = [forces |-> <<>>, corrective_physics |-> <<tether>>, updates_per_env_step |-> n]
    /\ ppc = [status |-> "ready", before |-> state]
    /\ plog = <<>>
    /\ OnlyPhysics

TheTether == physics.corrective_physics[1]
IsZipped(tether) == "zipped" \in DOMAIN tether

\* Tether.apply_physics(state, updates_per_env_step)
TetherApplies ==
    /\ ppc.status = "ready"
    /\ ~IsZipped(TheTether)
    /\ state' = TetherApplyPhysics(state, TheTether, physics.updates_per_env_step)
    /\ ppc' = [status |-> "applied", before |-> state]
    /\ UNCHANGED <<physics, plog>>
    /\ UNCHANGED exceptPhysics

\* TetherZippedLayers.apply_physics(state, updates_per_env_step)
ZippedApplies ==
    /\ ppc.status = "ready"
    /\ IsZipped(TheTether)
    /\ \E r \in {TetherZippedApplyPhysics(state, TheTether, physics.updates_per_env_step)} :
          /\ state' = r.state
          /\ ppc' = [status |-> IF r.raised THEN "raised" ELSE "applied", before |-> state]
    /\ UNCHANGED <<physics, plog>>
    /\ UNCHANGED exceptPhysics

NextTether ==
    \/ TetherApplies
    \/ ZippedApplies

SpecTether == InitTether /\ [][NextTether]_vars

(***************************************************************************)
(* Properties of the tethers                                               *)
(***************************************************************************)
\* A vector turned by a quarter turn counterclockwise
QuarterTurn(u) == <<Neg(u[2]), u[1]>>

\* The sprites Tether.apply_physics tethers, before and after the call
TetherGroup == Chain([k \in 1..Len(TheTether.layer_names) |-> LayerRefs(ppc.before, TheTether.layer_names[k])])
Member(k) == SpriteAt(ppc.before, TetherGroup[k])
MemberAfter(k) == SpriteAt(state, TetherGroup[k])
Members == 1..Len(TetherGroup)

GroupMass == SumQ([k \in Members |-> Member(k).mass])
GroupMomentum(st) == SumV([k \in Members |-> VScale(SpriteAt(st, TetherGroup[k]).mass, SpriteAt(st, TetherGroup[k]).velocity)])

\* The centre the group turns around and the velocity of that centre
GroupCentre ==
    IF TheTether.anchor # <<>> THEN TheTether.anchor[1]
    ELSE VDiv(SumV([k \in Members |-> VScale(Member(k).mass, Member(k).position)]), GroupMass)
GroupVelocity == IF TheTether.anchor # <<>> THEN VZero ELSE VDiv(GroupMomentum(ppc.before), GroupMass)

\* The lever arm of a member: from the centre to its position half a
\* sub-step ahead
Lever(k) == VSub(VAdd(Member(k).position, VDiv(Member(k).velocity, I(2 * N))), GroupCentre)

\* The aggregate angular velocity: the angular momentum of the group around
\* its centre (orbital and spin) over its moment of inertia around the centre
\* (parallel axis theorem)
GroupAngularVelocity ==
    Div(SumQ([k \in Members |->
                 Add(Mul(Member(k).mass, Dot(VSub(Member(k).velocity, GroupVelocity), QuarterTurn(Lever(k)))),
                     Mul(Member(k).angle_vel, MomentOfInertia(Member(k))))]),
        SumQ([k \in Members |->
                 Add(MomentOfInertia(Member(k)), Mul(Member(k).mass, NormSq(Lever(k))))]))

\* A Tether has been applied to a group that is not empty and has a finite mass
TetheredGroup ==
    /\ ppc.status = "applied"
    /\ ~IsZipped(TheTether)
    /\ Len(TetherGroup) > 0
    /\ IsFinite(GroupMass)

\* C16: after a tether with update_angle_vel is applied to a non-empty
\* group of finite mass, every member has the aggregate angular velocity and
\* the aggregate velocity plus lever arm times perpendicular direction times
\* that angular velocity; without update_angle_vel every member has the
\* aggregate velocity and the angular velocity 0.
C16_TetherRigid ==
    TetheredGroup =>
        \A k \in Members :
            IF TheTether.update_angle_vel
            THEN /\ MemberAfter(k).angle_vel = GroupAngularVelocity
                 /\ MemberAfter(k).velocity
                        = VAdd(GroupVelocity, VScale(GroupAngularVelocity, QuarterTurn(Lever(k))))
            ELSE /\ MemberAfter(k).angle_vel = Zero
                 /\ MemberAfter(k).velocity = GroupVelocity

\* C17: a tether without anchor applied to a group of finite mass leaves the
\* total linear momentum of the group as it was, with update_angle_vel and
\* without it.
C17_MomentumConserved ==
    (TetheredGroup /\ TheTether.anchor = <<>>) => GroupMomentum(state) = GroupMomentum(ppc.before)

\* C27: a tether with update_angle_vel applied to a non-empty group of
\* finite mass and finite velocities gives no member a velocity or an
\* angular velocity that is NaN or infinite, also when the lever arm of a
\* member has length zero.
C27_TetherStaysFinite ==
    (TetheredGroup /\ TheTether.update_angle_vel) =>
        \A k \in Members : VFinite(MemberAfter(k).velocity) /\ IsFinite(MemberAfter(k).angle_vel)

\* The layers of a zipped tether and their lengths
ZippedLayers == {TheTether.layer_names[k] : k \in 1..Len(TheTether.layer_names)}
EqualLengths == \A l1, l2 \in ZippedLayers : Len(ppc.before[l1]) = Len(ppc.before[l2])

\* Group i of a zipped tether taken out of the state: the i'th sprite of
\* every listed layer and nothing else, tethered on its own
GroupAlone(i) ==
    TetherSprites([l \in DOMAIN ppc.before |-> IF l \in ZippedLayers THEN <<ppc.before[l][i]>> ELSE <<>>],
                  ZippedRefs(TheTether.layer_names, 1), N,
                  TheTether.update_angle_vel, TheTether.anchor)

\* C18: TetherZippedLayers.apply_physics on layers of unequal length raises
\* and leaves every sprite as it was; on layers of equal length L it tethers
\* L groups, group i being the i'th sprite of every listed layer: what a
\* sprite gets is what its group gets when tethered without the others.
C18_ZippedGroups ==
    (IsZipped(TheTether) /\ ppc.status # "ready") =>
        /\ ppc.status = "raised" <=> ~EqualLengths
        /\ ppc.status = "raised" => state = ppc.before
        /\ ppc.status = "applied" =>
              \A l \in DOMAIN state :
                  /\ Len(state[l]) = Len(ppc.before[l])
                  /\ l \notin ZippedLayers => state[l] = ppc.before[l]
                  /\ l \in ZippedLayers =>
                        \A i \in 1..Len(state[l]) :
                            /\ state[l][i].velocity = GroupAlone(i)[l][1].velocity
                            /\ state[l][i].angle_vel = GroupAlone(i)[l][1].angle_vel
                            /\ [state[l][i] EXCEPT !.velocity = VZero, !.angle_vel = Zero, !.vel_id = 0]
                                   = [ppc.before[l][i] EXCEPT !.velocity = VZero, !.angle_vel = Zero, !.vel_id = 0]

\* Two layers of two sprites have been zipped into two groups, and each
\* group has got a velocity of its own
C18_Witness ==
    /\ IsZipped(TheTether)
    /\ ppc.status = "applied"
    /\ Len(TheTether.layer_names) = 2
    /\ \A l \in ZippedLayers : Len(state[l]) = 2
    /\ state["a"][1].velocity = state["b"][1].velocity
    /\ state["a"][2].velocity = state["b"][2].velocity
    /\ state["a"][1].velocity # state["a"][2].velocity
    /\ state["a"][1].velocity # ppc.before["a"][1].velocity

\* Layers of unequal length have made the zipped tether raise
C18_WitnessRaised ==
    /\ IsZipped(TheTether)
    /\ ppc.status = "raised"
    /\ Len(TheTether.layer_names) = 2

(***************************************************************************)
(* SpecShape: a sprite is constructed from a loop of vertices, and its     *)
(* shape is assigned once more.                                            *)
(***************************************************************************)
\* Three vertices on a line, and a loop that crosses itself and encloses as
\* much area clockwise as counterclockwise
CollinearVertices == <<V(0, 0), V(1, 0), V(2, 0)>>
BowTieVertices == <<V(0, 0), V(1, 1), V(1, 0), V(0, 1)>>

VertexLoops == {RectangleVertices, Reverse(RectangleVertices), TriangleVertices, CollinearVertices, BowTieVertices}

\* Sprite(x=..., y=..., shape=loop, angle=..., scale=...)
InitShape ==
    /\ \E loop \in VertexLoops, position \in SetPositions, k \in {0, 1}, sc \in {One, I(2)} :
          /\ sprite = NewSprite(position, [vertices |-> loop], Angle(Zero, k), sc, One, V(1, 0), Zero, One)
          /\ spc = [status |-> "ok", op |-> "init", is_stored |-> FALSE, arg |-> [vertices |-> loop],
                    n |-> 0, before |-> <<>>, array_shape |-> TRUE]
    /\ OnlySprite

\* sprite.shape = shape
ShapeSet ==
    /\ spc.n = 0
    /\ \E shape \in {[vertices |-> loop] : loop \in VertexLoops} \cup {[name |-> "square"]} :
          Ended(Returned(ShapeSetter(sprite, shape)), "shape", FALSE, shape)

NextShape == ShapeSet

SpecShape == InitShape /\ [][NextShape]_vars

\* The signed area of a loop of vertices (the shoelace formula)
SignedArea(loop) == Div(SumQ([i \in 1..Len(loop) |-> Cross(loop[i], loop[(i % Len(loop)) + 1])]), I(2))

\* The sprite has just been given a loop of vertices, by its constructor or
\* by the shape setter
GivenLoop == spc.op \in {"init", "shape"} /\ "vertices" \in DOMAIN spc.arg

\* C20: constructing a sprite from a loop of vertices of signed area zero,
\* or assigning such a loop as its shape, raises an error: no sprite has a
\* shape of area zero.
C20_ZeroAreaRaises ==
    (GivenLoop /\ SignedArea(spc.arg.vertices) = Zero) =>
        /\ spc.status = "raised"
        /\ spc.op = "shape" => sprite = spc.before

(***************************************************************************)
(* Environment (src/moog/environment.py), the Reset task                   *)
(* (src/moog/tasks/reset.py) and SimulationEnvironment                     *)
(* (src/moog/env_wrappers/simulation.py).  The environment is a record of  *)
(* the attributes of the object.  Its components are supplied by the       *)
(* caller; the ones of this model are one sprite on a line (state.x,       *)
(* state.v), an action space that sets the velocity to the action, a       *)
(* physics that adds the velocity to the position, one game rule that      *)
(* counts its steps in the meta-state, and a Reset task whose condition is *)
(* x >= 1 and whose reward function is x.                               *)
(***************************************************************************)
\* state_initializer() and meta_state_initializer()
StateInitializer == [x |-> 0, v |-> 0]
MetaStateInitializer == [key |-> 0]

\* The condition and the reward function given to Reset
Condition(st, meta) == st.x >= 1
RewardFn(st) == I(st.x)

\* Reset.reset
ResetReset(task, st, meta) == [task EXCEPT !.steps_until_reset = Inf]

\* Reset.reward with the countdown started again whenever the condition holds
ResetReward_Restarted(task, st, meta, step_count) ==
    LET met == Condition(st, meta)
        until == Sub(IF met THEN task.steps_after_condition ELSE task.steps_until_reset, One)
    IN  [task |-> [task EXCEPT !.steps_until_reset = until],
         reward |-> IF met THEN RewardFn(st) ELSE Zero,
         should_reset |-> Lt(until, Zero),
         evaluated |-> met]

\* Reset.reward: evaluated tells whether the reward function was called
ResetReward(task, st, meta, step_count) ==
    LET met == task.steps_until_reset = Inf /\ Condition(st, meta)
        until == Sub(IF met THEN task.steps_after_condition ELSE task.steps_until_reset, One)
    IN  [task |-> [task EXCEPT !.steps_until_reset = until],
         reward |-> IF met THEN RewardFn(st) ELSE Zero,
         should_reset |-> Lt(until, Zero),
         evaluated |-> met]

\* Physics.reset with one call for every force object, however often it is
\* registered
PhysicsReset_OncePerObject(phys, st) ==
    LET ids == {phys.forces[i].id : i \in 1..Len(phys.forces)}
        Sorted(set) == CHOOSE seq \in [1..Cardinality(set) -> set] :
                           \A i, j \in 1..Cardinality(set) : i < j => seq[i] < seq[j]
    IN  Sorted(ids) \o [i \in 1..Len(phys.corrective_physics) |-> phys.corrective_physics[i].id]

\* Physics.reset: the objects whose reset(state) it calls, in order.  A force
\* is registered as a tuple (force, layers...); id is the identity of the
\* force or corrective physics object.
PhysicsReset(phys, st) ==
    [i \in 1..Len(phys.forces) |-> phys.forces[i].id]
        \o [i \in 1..Len(phys.corrective_physics) |-> phys.corrective_physics[i].id]

\* The game rule: reset does nothing, step counts in the meta-state
RuleStep(st, meta) == [meta EXCEPT !.key = @ + 1]

\* action_space.step(state, action) and physics.step(state)
ActionSpaceStep(st, action) == [st EXCEPT !.v = action]
PhysicsStepState(st) == [st EXCEPT !.x = @ + st.v]

\* dm_env.restart, dm_env.transition and dm_env.termination
TimeStep(step_type, reward) == [step_type |-> step_type, reward |-> reward]

\* Environment.reset: the environment after it, the timestep it returns and
\* the reset calls Physics.reset made
EnvironmentReset(e) ==
    LET st == StateInitializer
        meta == MetaStateInitializer
    IN  [env |-> [e EXCEPT !.reset_next_step = FALSE,
                           !.step_count = 0,
                           !.state = st,
                           !.meta_state = RuleStep(st, meta),
                           !.task = ResetReset(e.task, st, meta)],
         timestep |-> TimeStep("FIRST", None),
         resets |-> PhysicsReset(e.physics, st),
         evaluated |-> FALSE,
         stepped |-> FALSE]

\* Environment.step that steps on although the last timestep was terminal
EnvironmentStep_NoReset(e, action) ==
    LET meta == RuleStep(e.state, e.meta_state)
        st == PhysicsStepState(ActionSpaceStep(e.state, action))
        step_count == e.step_count + 1
        r == ResetReward(e.task, st, meta, step_count)
    IN  [env |-> [e EXCEPT !.state = st, !.meta_state = meta,
                           !.step_count = step_count, !.task = r.task,
                           !.reset_next_step = IF r.should_reset THEN TRUE ELSE @],
         timestep |-> TimeStep(IF r.should_reset THEN "LAST" ELSE "MID", r.reward),
         resets |-> <<>>,
         evaluated |-> r.evaluated,
         stepped |-> TRUE]

\* Environment.step
EnvironmentStep(e, action) ==
    IF e.reset_next_step THEN EnvironmentReset(e)
    ELSE LET meta == RuleStep(e.state, e.meta_state)
             st == PhysicsStepState(ActionSpaceStep(e.state, action))
             step_count == e.step_count + 1
             r == ResetReward(e.task, st, meta, step_count)
         IN  [env |-> [e EXCEPT !.state = st, !.meta_state = meta,
                                !.step_count = step_count, !.task = r.task,
                                !.reset_next_step = IF r.should_reset THEN TRUE ELSE @],
              timestep |-> TimeStep(IF r.should_reset THEN "LAST" ELSE "MID", r.reward),
              resets |-> <<>>,
              evaluated |-> r.evaluated,
              stepped |-> TRUE]

\* What sim_step pushes: deep copies of the attributes of the environment
Snapshot(e) ==
    [state |-> e.state, meta_state |-> e.meta_state, action_space |-> e.action_space,
     physics |-> e.physics, game_rules |-> e.game_rules, task |-> e.task,
     step_count |-> e.step_count, reset_next_step |-> e.reset_next_step]

\* stack[index] of Python: the position of the element, 0 if out of range
ListIndex(len, index) ==
    IF index >= 0 /\ index < len THEN index + 1
    ELSE IF index < 0 /\ -index <= len THEN len + index + 1
    ELSE 0

\* stack[:index] of Python
ListPrefix(seq, index) ==
    IF index >= 0 THEN SubSeq(seq, 1, IF index < Len(seq) THEN index ELSE Len(seq))
    ELSE SubSeq(seq, 1, IF Len(seq) + index > 0 THEN Len(seq) + index ELSE 0)

\* sim_pop that restores the entry and drops only the entries above it
SimPop_KeepsEntry(e, stk, index) ==
    LET k == ListIndex(Len(stk), index)
    IN  IF k = 0 THEN [ok |-> FALSE, env |-> e, stack |-> stk]
        ELSE [ok |-> TRUE,
              env |-> [e EXCEPT !.state = stk[k].state, !.action_space = stk[k].action_space,
                                !.physics = stk[k].physics, !.game_rules = stk[k].game_rules,
                                !.task = stk[k].task, !.meta_state = stk[k].meta_state,
                                !.step_count = stk[k].step_count,
                                !.reset_next_step = stk[k].reset_next_step],
              stack |-> SubSeq(stk, 1, k)]

\* SimulationEnvironment.sim_pop: ok = FALSE is the IndexError of stack[index]
SimPop(e, stk, index) ==
    LET k == ListIndex(Len(stk), index)
    IN  IF k = 0 THEN [ok |-> FALSE, env |-> e, stack |-> stk]
        ELSE [ok |-> TRUE,
              env |-> [e EXCEPT !.state = stk[k].state, !.action_space = stk[k].action_space,
                                !.physics = stk[k].physics, !.game_rules = stk[k].game_rules,
                                !.task = stk[k].task, !.meta_state = stk[k].meta_state,
                                !.step_count = stk[k].step_count,
                                !.reset_next_step = stk[k].reset_next_step],
              stack |-> ListPrefix(stk, index)]

\* SimulationEnvironment.step
SimulationStep(e, stk, action) ==
    EnvironmentStep(IF stk # <<>> THEN SimPop(e, stk, 0).env ELSE e, action) @@ [stack |-> <<>>]

\* SimulationEnvironment.sim_step: None is returned across an episode
\* boundary
SimStep(e, stk, action) ==
    IF e.reset_next_step
    THEN [env |-> e, timestep |-> None, resets |-> <<>>, evaluated |-> FALSE, stepped |-> FALSE, stack |-> stk]
    ELSE EnvironmentStep(e, action) @@ [stack |-> Append(stk, Snapshot(e))]

(***************************************************************************)
(* SpecEnvironment: an Environment with the components above, on which     *)
(* reset() and step(action) are called in any order.  SpecSimulation: the  *)
(* same environment inside a SimulationEnvironment, on which reset, step,  *)
(* sim_step and sim_pop are called in any order.  The constructors set     *)
(* neither _reset_next_step and step_count nor the stack: a call before    *)
(* the first reset() ends in an AttributeError, and no such call is drawn. *)
(***************************************************************************)
MaxCalls == 5
MaxSimCalls == 5

Actions == {-1, 0, 1}

\* The numbers of steps_after_condition; the default of the constructor is inf
StepsAfterCondition == {I(0), I(1), I(2), Inf}

\* Physics(*forces, corrective_physics=...): forces are tuples of a force and
\* its layers; id is the identity of the object
Registrations ==
    { [forces |-> <<[id |-> 1, layers |-> <<"avatar">>], [id |-> 2, layers |-> <<"avatar", "prey">>]>>,
       corrective_physics |-> <<[id |-> 3]>>],
      [forces |-> <<[id |-> 1, layers |-> <<"avatar", "walls">>], [id |-> 1, layers |-> <<"prey", "walls">>]>>,
       corrective_physics |-> <<[id |-> 3]>>],
      [forces |-> <<[id |-> 1, layers |-> <<"avatar">>]>>,
       corrective_physics |-> <<[id |-> 2], [id |-> 3]>>] }

\* Environment.__init__
Environment(phys, k) ==
    [state |-> None, meta_state |-> None, action_space |-> "action_space",
     physics |-> phys, game_rules |-> <<"update_meta_state">>,
     task |-> [steps_after_condition |-> k, steps_until_reset |-> None],
     step_count |-> None, reset_next_step |-> None]

\* What is remembered of the calls: the last call, the timestep it returned
\* and the one before, the environment and the stack before it, the calls of
\* reward() since the last reset, the environment as it is without the
\* simulation calls, and the environments before the outstanding sim_steps
NoCall ==
    [op |-> "init", calls |-> 0, action |-> 0, index |-> 0, ok |-> TRUE,
     timestep |-> None, prev |-> None, before |-> None, beforeStack |-> <<>>,
     resets |-> <<>>, history |-> <<>>, real |-> None, realTimestep |-> None,
     outstanding |-> <<>>, popped |-> None]

InitEnvironment ==
    /\ \E phys \in Registrations, k \in StepsAfterCondition :
           /\ env = Environment(phys, k)
           /\ elog = [NoCall EXCEPT !.real = env]
    /\ stack = <<>>
    /\ OnlyEnvironment

\* reset() has been called: _reset_next_step and step_count exist
WasReset == elog.op # "init"

\* One call of reward(): whether the condition held, and what came of it
RewardCall(r) ==
    [met |-> Condition(r.env.state, r.env.meta_state), x |-> r.env.state.x, reward |-> r.timestep.reward,
     should_reset |-> r.timestep.step_type = "LAST", evaluated |-> r.evaluated]

EnvReset ==
    /\ elog.calls < MaxCalls
    /\ LET r == EnvironmentReset(env)
       IN  /\ env' = r.env
           /\ elog' = [elog EXCEPT !.op = "reset", !.calls = @ + 1, !.action = 0,
                                   !.timestep = r.timestep, !.prev = elog.timestep,
                                   !.before = env, !.resets = r.resets,
                                   !.history = <<>>, !.real = r.env,
                                   !.realTimestep = r.timestep]
    /\ UNCHANGED <<stack, exceptEnvironment>>

EnvStep ==
    /\ elog.calls < MaxCalls
    /\ WasReset
    /\ \E action \in Actions :
           LET r == EnvironmentStep(env, action)
           IN  /\ env' = r.env
               /\ elog' = [elog EXCEPT !.op = "step", !.calls = @ + 1, !.action = action,
                                       !.timestep = r.timestep, !.prev = elog.timestep,
                                       !.before = env, !.resets = r.resets,
                                       !.history = IF r.stepped THEN Append(@, RewardCall(r)) ELSE <<>>,
                                       !.real = r.env, !.realTimestep = r.timestep]
    /\ UNCHANGED <<stack, exceptEnvironment>>

NextEnvironment ==
    \/ EnvReset
    \/ EnvStep

SpecEnvironment == InitEnvironment /\ [][NextEnvironment]_vars

(***************************************************************************)
(* Properties of SpecEnvironment                                           *)
(***************************************************************************)
\* How many times x occurs in seq
Occurrences(seq, x) == Cardinality({i \in 1..Len(seq) : seq[i] = x})

\* The identities of the forces and corrective physics of a Physics object
Registered(phys) == [i \in 1..Len(phys.forces) |-> phys.forces[i].id] \o [i \in 1..Len(phys.corrective_physics) |-> phys.corrective_physics[i].id]

\* The call was a reset(): reset() itself or the step() after a terminal
\* timestep
DidReset == elog.op \in {"reset", "step"} /\ elog.timestep # None /\ elog.timestep.step_type = "FIRST"

\* C22 as stated: one call of Physics.reset(state) delivers exactly one
\* reset(state) call to every registered force object and to every
\* corrective physics object, however the forces are registered, and changes
\* no body.
C22_ExactlyOneResetPerObject ==
    DidReset =>
        /\ \A i \in 1..Len(Registered(env.physics)) : Occurrences(elog.resets, Registered(env.physics)[i]) = 1
        /\ env.state = StateInitializer

\* C22, amended: one call of Physics.reset(state) delivers one reset(state)
\* call for every registered (force, layers...) tuple, to the force of the
\* tuple and in the order of the tuples, so that a force object registered
\* in n tuples receives n calls, then one call for every entry of
\* corrective_physics; it changes no body, and a step() that does not reset
\* delivers no reset call.
C22_OneResetPerRegistration ==
    /\ DidReset =>
          /\ elog.resets = Registered(env.physics)
          /\ \A i \in 1..Len(Registered(env.physics)) : Occurrences(elog.resets, Registered(env.physics)[i]) = Occurrences(Registered(env.physics), Registered(env.physics)[i])
          /\ env.state = StateInitializer
    /\ (elog.op = "step" /\ ~DidReset) => elog.resets = <<>>

\* A reset of a physics whose one force is registered in two tuples: the
\* force was reset twice, the corrective physics once
C22_Witness ==
    /\ DidReset
    /\ Occurrences(elog.resets, 1) = 2
    /\ Occurrences(elog.resets, 3) = 1
    /\ Len(env.physics.forces) = 2

\* The timestep returned before the last call was terminal
AfterTerminal == elog.prev # None /\ elog.prev.step_type = "LAST"

\* C23: once step() has returned a terminal timestep, the next step() does
\* not advance the physics or apply the action: it performs reset() and
\* returns a first timestep with step_count = 0; every other step()
\* increments step_count by exactly 1, and no terminal timestep follows
\* directly on a terminal timestep.
C23_StepAfterTerminalResets ==
    elog.op = "step" =>
        /\ AfterTerminal <=> elog.before.reset_next_step
        /\ AfterTerminal =>
              /\ env = EnvironmentReset(elog.before).env
              /\ env.state = StateInitializer
              /\ elog.timestep = TimeStep("FIRST", None)
              /\ env.step_count = 0
              /\ ~env.reset_next_step
              /\ elog.history = <<>>
        /\ ~AfterTerminal =>
              /\ env.step_count = elog.before.step_count + 1
              /\ elog.timestep.step_type \in {"MID", "LAST"}
              /\ env.state.v = elog.action
              /\ env.state.x = elog.before.state.x + elog.action
        /\ ~(AfterTerminal /\ elog.timestep.step_type = "LAST")

\* A step() with a non-zero action right after a terminal timestep that was
\* reached away from the initial position
C23_Witness ==
    /\ elog.op = "step"
    /\ AfterTerminal
    /\ elog.action # 0
    /\ elog.before.state.x # StateInitializer.x
    /\ elog.before.step_count > 1
    /\ elog.timestep.step_type = "FIRST"

\* The calls of reward() since the last reset of the task, and the first of
\* them at which the condition held (0 if none)
RewardCalls == elog.history
FirstMet == IF \E i \in 1..Len(RewardCalls) : RewardCalls[i].met THEN CHOOSE i \in 1..Len(RewardCalls) : RewardCalls[i].met /\ \A h \in 1..(i - 1) : ~RewardCalls[h].met ELSE 0

\* steps_after_condition as an integer, if it is finite
StepsAfter == env.task.steps_after_condition[1]

\* What the claim says of the reward() calls for the number k of
\* steps_after_condition: no reset is asked for before call j + k, one is
\* asked for on call j + k, and the reward function is evaluated on call j only.
RewardCallsAsClaimed ==
    /\ \A i \in 1..Len(RewardCalls) : RewardCalls[i].evaluated <=> i = FirstMet
    /\ \A i \in 1..Len(RewardCalls) : RewardCalls[i].reward = (IF i = FirstMet THEN I(elog.history[i].x) ELSE Zero)
    /\ IsFinite(env.task.steps_after_condition) =>
           \A i \in 1..Len(RewardCalls) :
               /\ (FirstMet = 0 \/ i < FirstMet + StepsAfter) => ~RewardCalls[i].should_reset
               /\ (FirstMet # 0 /\ i = FirstMet + StepsAfter) => RewardCalls[i].should_reset

\* C25 as stated: for the Reset task with steps_after_condition = k, if the
\* condition first holds at the j-th reward() call after reset, should_reset
\* is False on every call before call j+k and True on call j+k; the reward
\* function is evaluated only on call j, and the countdown is not restarted
\* by the condition holding again.
C25_ResetAfterCondition == WasReset => RewardCallsAsClaimed

\* C25, amended: the same for every finite steps_after_condition.  With the
\* default steps_after_condition = inf the countdown never becomes finite:
\* should_reset is never True and the reward function is evaluated on every
\* call at which the condition holds.
C25_ResetAfterFiniteCondition ==
    WasReset =>
        /\ IsFinite(env.task.steps_after_condition) => RewardCallsAsClaimed
        /\ ~IsFinite(env.task.steps_after_condition) =>
               \A i \in 1..Len(RewardCalls) :
                   /\ ~RewardCalls[i].should_reset
                   /\ RewardCalls[i].evaluated <=> RewardCalls[i].met

\* The condition held at call 1, not at call 2 and again at call 3 of an
\* episode with steps_after_condition = 2, which ended at call 3 with the
\* reward function evaluated once
C25_Witness ==
    /\ WasReset
    /\ env.task.steps_after_condition = I(2)
    /\ Len(RewardCalls) = 3
    /\ RewardCalls[1].met /\ ~RewardCalls[2].met /\ RewardCalls[3].met
    /\ RewardCalls[3].should_reset
    /\ ~RewardCalls[3].evaluated
    /\ RewardCalls[1].reward # Zero

(***************************************************************************)
(* SpecSimulation: the environment inside a SimulationEnvironment.  The    *)
(* history keeps the environment as it is when every simulation call is    *)
(* left out (real), and the environments before the outstanding sim_steps  *)
(* (outstanding).                                                          *)
(***************************************************************************)
MaxStack == 3

WrapperReset ==
    /\ elog.calls < MaxSimCalls
    /\ LET r == EnvironmentReset(env)
           real == EnvironmentReset(elog.real)
       IN  /\ env' = r.env
           /\ stack' = <<>>
           /\ elog' = [elog EXCEPT !.op = "reset", !.calls = @ + 1, !.action = 0,
                                   !.timestep = r.timestep, !.prev = elog.timestep,
                                   !.before = env, !.beforeStack = stack,
                                   !.resets = r.resets, !.ok = TRUE,
                                   !.real = real.env, !.realTimestep = real.timestep,
                                   !.outstanding = <<>>]
    /\ UNCHANGED exceptEnvironment

WrapperStep ==
    /\ elog.calls < MaxSimCalls
    /\ WasReset
    /\ \E action \in Actions :
           LET r == SimulationStep(env, stack, action)
               real == EnvironmentStep(elog.real, action)
           IN  /\ env' = r.env
               /\ stack' = r.stack
               /\ elog' = [elog EXCEPT !.op = "step", !.calls = @ + 1, !.action = action,
                                       !.timestep = r.timestep, !.prev = elog.timestep,
                                       !.before = env, !.beforeStack = stack,
                                       !.resets = r.resets, !.ok = TRUE,
                                       !.real = real.env, !.realTimestep = real.timestep,
                                       !.outstanding = <<>>]
    /\ UNCHANGED exceptEnvironment

WrapperSimStep ==
    /\ elog.calls < MaxSimCalls
    /\ WasReset
    /\ Len(stack) < MaxStack
    /\ \E action \in Actions :
           LET r == SimStep(env, stack, action)
           IN  /\ env' = r.env
               /\ stack' = r.stack
               /\ elog' = [elog EXCEPT !.op = "sim_step", !.calls = @ + 1, !.action = action,
                                       !.timestep = r.timestep, !.prev = elog.timestep,
                                       !.before = env, !.beforeStack = stack,
                                       !.resets = r.resets, !.ok = TRUE,
                                       !.outstanding = IF r.timestep = None THEN @ ELSE Append(@, env)]
    /\ UNCHANGED exceptEnvironment

WrapperSimPop ==
    /\ elog.calls < MaxSimCalls
    /\ WasReset
    /\ \E index \in (0 - MaxStack)..MaxStack :
           LET r == SimPop(env, stack, index)
               k == ListIndex(Len(elog.outstanding), index)
           IN  /\ env' = r.env
               /\ stack' = r.stack
               /\ elog' = [elog EXCEPT !.op = "sim_pop", !.calls = @ + 1, !.index = index,
                                       !.before = env, !.beforeStack = stack,
                                       !.resets = <<>>, !.ok = r.ok,
                                       !.popped = IF k = 0 THEN None ELSE elog.outstanding[k],
                                       !.outstanding = IF k = 0 THEN @ ELSE SubSeq(@, 1, k - 1)]
    /\ UNCHANGED exceptEnvironment

NextSimulation ==
    \/ WrapperReset
    \/ WrapperStep
    \/ WrapperSimStep
    \/ WrapperSimPop

SpecSimulation == InitEnvironment /\ [][NextSimulation]_vars

(***************************************************************************)
(* Properties of SpecSimulation                                            *)
(***************************************************************************)
\* The stack holds one entry for every outstanding sim_step: the copy of the
\* environment before it
StackIsOutstanding ==
    /\ Len(stack) = Len(elog.outstanding)
    /\ \A i \in 1..Len(stack) : stack[i] = Snapshot(elog.outstanding[i])

\* C24: for any interleaving of sim_step and sim_pop since the last real
\* step or reset, (a) sim_pop(i) restores the complete environment (state,
\* meta_state, action space, physics, game rules, task, step_count,
\* reset_next_step) to what it was immediately before the i-th outstanding
\* sim_step and drops the stack entries i and above, and (b) a following
\* step(action) first restores the environment to its value before the first
\* outstanding sim_step and empties the stack, so that the real trajectory is
\* the one obtained with no simulation calls at all.
C24_SimulationLeavesNoTrace ==
    /\ StackIsOutstanding
    /\ (elog.op = "sim_pop" /\ elog.ok) =>
           /\ env = elog.popped
           /\ Snapshot(env) = elog.beforeStack[ListIndex(Len(elog.beforeStack), elog.index)]
           /\ stack = SubSeq(elog.beforeStack, 1, ListIndex(Len(elog.beforeStack), elog.index) - 1)
    /\ elog.op = "step" =>
           /\ stack = <<>>
           /\ env = elog.real
           /\ elog.timestep = elog.realTimestep
           /\ elog.beforeStack # <<>> => env = EnvironmentStep(SimPop(elog.before, elog.beforeStack, 0).env, elog.action).env

\* sim_pop(1) after three sim_steps: one entry is left, and the state and
\* the task are again the ones before the second sim_step
C24_WitnessPop ==
    /\ elog.op = "sim_pop"
    /\ elog.ok
    /\ elog.index = 1
    /\ Len(elog.beforeStack) = 3
    /\ Len(stack) = 1
    /\ elog.before.state # env.state
    /\ elog.before.task # env.task

\* A real step after outstanding sim_steps that had ended the episode in
\* simulation
C24_Witness ==
    /\ elog.op = "step"
    /\ Len(elog.beforeStack) >= 2
    /\ elog.before.reset_next_step
    /\ elog.timestep.step_type = "MID"
    /\ elog.before.state.x # env.state.x
    /\ env.step_count = 2

(***************************************************************************)
(* Phase and PhaseSequence (src/moog/game_rules/task_phases.py).           *)
(* SpecPhases: a PhaseSequence of one to MaxPhases phases, each with one   *)
(* one-time rule and one continual rule, is reset and then stepped; the    *)
(* value of the end condition is drawn at every step.  The sequence is the *)
(* object of env; elog keeps the last call and whether it raised.          *)
(***************************************************************************)
MaxPhases == 2
MaxPhaseSteps == 4

\* The durations of a phase; the default of the constructor is inf
Durations == {I(1), I(2), Inf}

\* Phase.__init__ and Phase.reset; one_time and continual count the steps of
\* the rules of the phase
Phase(duration) == [duration |-> duration, should_end |-> FALSE, step_count |-> 0, current_duration |-> duration, one_time |-> 0, continual |-> 0]

\* Phase.step
PhaseStep(phase, end_condition) ==
    IF phase.should_end THEN phase
    ELSE LET step_count == phase.step_count + 1
         IN  [phase EXCEPT !.one_time = IF phase.step_count = 0 THEN @ + 1 ELSE @,
                           !.continual = @ + 1,
                           !.step_count = step_count,
                           !.should_end = Ge(I(step_count), phase.current_duration) \/ end_condition]

\* PhaseSequence.__init__ and PhaseSequence.reset: _current_phase is kept as
\* the index of the phase it refers to
PhaseSequence(durations) == [phases |-> [i \in 1..Len(durations) |-> Phase(durations[i])], current_phase_ind |-> 0, current_phase |-> 0]

\* PhaseSequence.step: raised is the IndexError of
\* self._phases[self._current_phase_ind], which is met after the index was
\* incremented and before _current_phase is assigned
PhaseSequenceStep(seq, end_condition) ==
    LET phase == PhaseStep(seq.phases[seq.current_phase + 1], end_condition)
        phases == [seq.phases EXCEPT ![seq.current_phase + 1] = phase]
        ind == seq.current_phase_ind + 1
    IN  IF ~phase.should_end THEN [raised |-> FALSE, seq |-> [seq EXCEPT !.phases = phases]]
        ELSE IF ind >= Len(seq.phases) THEN [raised |-> TRUE, seq |-> [seq EXCEPT !.phases = phases, !.current_phase_ind = ind]]
        ELSE [raised |-> FALSE, seq |-> [seq EXCEPT !.phases = phases, !.current_phase_ind = ind, !.current_phase = ind]]

InitPhases ==
    /\ \E n \in 1..MaxPhases : \E durations \in [1..n -> Durations] : env = PhaseSequence(durations)
    /\ elog = [op |-> "reset", calls |-> 0, raised |-> FALSE, before |-> env, end_condition |-> FALSE]
    /\ stack = <<>>
    /\ OnlyEnvironment

PhasesStep ==
    /\ elog.calls < MaxPhaseSteps
    /\ \E end_condition \in BOOLEAN :
           LET r == PhaseSequenceStep(env, end_condition)
           IN  /\ env' = r.seq
               /\ elog' = [op |-> "step", calls |-> elog.calls + 1, raised |-> r.raised, before |-> env, end_condition |-> end_condition]
    /\ UNCHANGED <<stack, exceptEnvironment>>

NextPhases == PhasesStep

SpecPhases == InitPhases /\ [][NextPhases]_vars

\* The number of steps of the rules of all phases
RuleSteps(seq) == SumQ([i \in 1..Len(seq.phases) |-> I(seq.phases[i].one_time + seq.phases[i].continual)])

\* The final phase of the sequence has ended
FinalEnded(seq) == seq.phases[Len(seq.phases)].should_end

\* C29: PhaseSequence steps its phases strictly in order, moving to phase
\* i+1 exactly when phase i reports should_end, and never fails: for every
\* sequence of step calls, including the step on which the final phase ends
\* and all steps after it, no phase index outside the phase list is accessed,
\* and the calls after the final phase has ended step no rule.
C29_PhaseSequenceNeverFails ==
    elog.op = "step" =>
        /\ ~elog.raised
        /\ env.current_phase_ind < Len(env.phases)
        /\ FinalEnded(elog.before) => RuleSteps(env) = RuleSteps(elog.before)

(***************************************************************************)
(* MazePhysics (src/moog/physics/maze_physics.py) on a Maze                *)
(* (src/moog/maze_lib/maze.py).  A maze is its binary matrix, maze[j][i]   *)
(* with 1 for a wall; the vertices of the grid are the centres of the      *)
(* cells, half_grid_side + i * grid_side.  Axes and directions are counted *)
(* from 0 as in the source; None for the axis is -1.                       *)
(***************************************************************************)
\* _EPSILON of maze_physics.py
MAZE_EPSILON == Q(1, 100000)

\* Floor of a finite number (//, and astype(int) of a floored value)
Floor(a) == a[1] \div a[2]

\* np.round: to the nearest integer, halves to the even one
Round(a) ==
    LET f == Floor(a)
        rest == Sub(a, I(f))
    IN  IF Lt(rest, Q(1, 2)) THEN f
        ELSE IF Lt(Q(1, 2), rest) THEN f + 1
        ELSE IF f % 2 = 0 THEN f ELSE f + 1

\* Maze.__init__
Maze(maze) == [maze |-> maze, maze_size |-> Len(maze), grid_side |-> Q(1, Len(maze)), half_grid_side |-> Q(1, 2 * Len(maze))]

\* Maze.open_vertex
OpenVertex(m, i, j) == IF i < 0 \/ j < 0 \/ i >= m.maze_size \/ j >= m.maze_size THEN FALSE ELSE m.maze[j + 1][i + 1] = 0

\* Maze.valid_directions
ValidDirections(m, i, j) == << <<OpenVertex(m, i - 1, j), OpenVertex(m, i + 1, j)>>, <<OpenVertex(m, i, j - 1), OpenVertex(m, i, j + 1)>> >>

\* MazePhysics._get_position_affordances: the position it returns is its
\* argument (the snapped new_position is not returned); raised is the
\* ValueError 'Object is not on the maze grid'
GetPositionAffordances(m, position) ==
    LET grid_side == m.grid_side
        half_grid_side == m.half_grid_side
        NearestInd(a) == Round(Sub(Div(position[a], grid_side), Q(1, 2)))
        nearest_inds == <<NearestInd(1), NearestInd(2)>>
        Rounded(a) == Add(half_grid_side, Mul(I(nearest_inds[a]), grid_side))
        rounded_position == <<Rounded(1), Rounded(2)>>
        OnGridLine(a) == Lt(AbsQ(Sub(rounded_position[a], position[a])), MAZE_EPSILON)
        on_grid == <<OnGridLine(1), OnGridLine(2)>>
        Ind(a) == IF on_grid[a] THEN nearest_inds[a] ELSE Floor(Div(Sub(position[a], half_grid_side), grid_side))
        inds == <<Ind(1), Ind(2)>>
        valid_directions == ValidDirections(m, inds[1], inds[2])
        i == IF on_grid[1] THEN 2 ELSE 1
        lower == Sub(Add(Mul(I(inds[i]), grid_side), half_grid_side), position[i])
        upper == Sub(Add(Mul(I(inds[i] + 1), grid_side), half_grid_side), position[i])
    IN  IF ~on_grid[1] /\ ~on_grid[2]
        THEN [raised |-> TRUE, position |-> position, affordances |-> <<<<Zero, Zero>>, <<Zero, Zero>>>>]
        ELSE IF on_grid[1] /\ on_grid[2]
        THEN [raised |-> FALSE, position |-> position,
              affordances |-> << <<IF valid_directions[1][1] THEN Neg(grid_side) ELSE Zero,
                                   IF valid_directions[1][2] THEN grid_side ELSE Zero>>,
                                 <<IF valid_directions[2][1] THEN Neg(grid_side) ELSE Zero,
                                   IF valid_directions[2][2] THEN grid_side ELSE Zero>> >>]
        ELSE [raised |-> FALSE, position |-> position,
              affordances |-> IF i = 1 THEN << <<lower, upper>>, <<Zero, Zero>> >> ELSE << <<Zero, Zero>>, <<lower, upper>> >>]

\* int(0.5 + 0.5 * np.sign(x))
Direction(x) == IF Lt(Zero, x) THEN 1 ELSE 0

\* np.argmax(np.abs(velocity)): the first of equal values
ArgMaxAbs(velocity) == IF Lt(AbsQ(velocity[1]), AbsQ(velocity[2])) THEN 1 ELSE 0

\* MazePhysics._get_new_velocity; raised is a ValueError of
\* _get_position_affordances at the vertex that was reached
RECURSIVE GetNewVelocity(_, _, _, _, _)
GetNewVelocity(m, position, velocity, affordances, axis_arg) ==
    LET axis == IF axis_arg = -1 THEN ArgMaxAbs(velocity) ELSE axis_arg
        other == 1 - axis
        direction == Direction(velocity[axis + 1])
        other_direction == Direction(velocity[other + 1])
        reach == affordances[axis + 1][direction + 1]
        vertex == [position EXCEPT ![axis + 1] = Add(@, reach)]
        scaling == Div(reach, velocity[axis + 1])
        velocity_remainder == VScale(Sub(One, scaling), velocity)
        PostVertex(at_vertex) ==
            IF at_vertex.raised THEN [raised |-> TRUE, velocity |-> velocity]
            ELSE With(GetNewVelocity(m, vertex, velocity_remainder, at_vertex.affordances, -1),
                      LAMBDA post : IF post.raised THEN post
                                    ELSE [raised |-> FALSE, velocity |-> VAdd([VScale(scaling, velocity) EXCEPT ![other + 1] = Zero], post.velocity)])
    IN  IF Le(affordances[axis + 1][1], velocity[axis + 1]) /\ Le(velocity[axis + 1], affordances[axis + 1][2])
        THEN [raised |-> FALSE, velocity |-> [velocity EXCEPT ![other + 1] = Zero]]
        ELSE IF reach = Zero
        THEN IF affordances[other + 1][other_direction + 1] = Zero \/ velocity[other + 1] = Zero
             THEN [raised |-> FALSE, velocity |-> VZero]
             ELSE GetNewVelocity(m, position, velocity, affordances, other)
        ELSE With(GetPositionAffordances(m, vertex), PostVertex)

\* The angle arctan(t) + k * pi / 2 of a sprite in a maze.  The angles that
\* _update_sprite_angle computes lie in (-pi/2, pi/2) for a positive
\* velocity[1], in (pi/2, 3 pi/2) for a negative one and are -pi/2 or pi/2
\* for velocity[1] = 0, so two of them differ by more than _EPSILON unless
\* t and k are the same.
MazeAngle(t, k) == [tan |-> t, turns |-> k]

\* A sprite in a layer of the maze physics
MazeSprite(position) == [position |-> position, velocity |-> VZero, angle |-> MazeAngle(Zero, 0)]

\* MazePhysics._update_sprite_angle
UpdateSpriteAngle(s, new_velocity) ==
    IF new_velocity = VZero THEN s
    ELSE LET new_angle == IF new_velocity[2] = Zero THEN MazeAngle(Zero, 0 - SignQ(new_velocity[1])[1])
                          ELSE IF Lt(Zero, new_velocity[2]) THEN MazeAngle(Div(Neg(new_velocity[1]), new_velocity[2]), 0)
                          ELSE MazeAngle(Div(Neg(new_velocity[1]), new_velocity[2]), 2)
         IN  IF new_angle # s.angle THEN [s EXCEPT !.angle = new_angle] ELSE s

\* np.clip(x, -max_speed, max_speed)
Clip(x, max_speed) == IF Lt(x, Neg(max_speed)) THEN Neg(max_speed) ELSE IF Lt(max_speed, x) THEN max_speed ELSE x

\* MazePhysics._update_sprite_in_maze; None is <<>>.  velocity is the stored
\* array unless np.clip has made a new one, so that the in-place operations
\* for constant_speed are seen in the sprite when the method raises.
UpdateSpriteInMaze(mp, s) ==
    LET clipped == IF mp.max_speed # None THEN <<Clip(s.velocity[1], mp.max_speed), Clip(s.velocity[2], mp.max_speed)>> ELSE s.velocity
        velocity == IF mp.constant_speed # None
                    THEN VScale(mp.constant_speed, <<Add(clipped[1], SignQ(clipped[1])), Add(clipped[2], SignQ(clipped[2]))>>)
                    ELSE clipped
        stored == IF mp.max_speed # None THEN s ELSE [s EXCEPT !.velocity = velocity]
        Updated(new) ==
            IF new.raised THEN [raised |-> TRUE, s |-> stored]
            ELSE [raised |-> FALSE, s |-> [UpdateSpriteAngle(stored, new.velocity) EXCEPT !.velocity = new.velocity]]
        InMaze(here) ==
            IF here.raised THEN [raised |-> TRUE, s |-> stored]
            ELSE With(GetNewVelocity(mp.maze, here.position, velocity, here.affordances, -1), Updated)
    IN  IF s.velocity = VZero \/ IsNaN(s.velocity[1]) \/ IsNaN(s.velocity[2]) THEN [raised |-> FALSE, s |-> s]
        ELSE With(GetPositionAffordances(mp.maze, s.position), InMaze)

\* MazePhysics.apply_physics on the sprites of layer 'agent' (avatar_layers):
\* the first sprite that raises ends the loop
RECURSIVE MazeLoop(_, _, _)
MazeLoop(mp, st, i) ==
    IF i > Len(st.agent) THEN [raised |-> FALSE, state |-> st]
    ELSE With(UpdateSpriteInMaze(mp, st.agent[i]),
              LAMBDA r : IF r.raised THEN [raised |-> TRUE, state |-> [st EXCEPT !.agent[i] = r.s]]
                         ELSE MazeLoop(mp, [st EXCEPT !.agent[i] = r.s], i + 1))

\* MazePhysics.apply_physics that lets the requested velocity through
MazeApplyPhysics_Unclipped(mp, st, updates_per_env_step) == [raised |-> FALSE, state |-> st]

\* MazePhysics.apply_physics: the ValueError for updates_per_env_step # 1,
\* then the loop
MazeApplyPhysics(mp, st, updates_per_env_step) ==
    IF updates_per_env_step # 1 THEN [raised |-> TRUE, state |-> st] ELSE MazeLoop(mp, st, 1)

\* Physics.step with no force and the maze physics as the only, and so the
\* last, corrective physics: after apply_physics every sprite does
\* update_pos_from_vel(delta_t = 1 / updates_per_env_step), with no angular
\* velocity
MazePhysicsStep(phys, st) ==
    LET delta_t == Div(One, I(phys.updates_per_env_step))
        Moved(s) == [s EXCEPT !.position = VAdd(@, VScale(delta_t, s.velocity))]
    IN  With(MazeApplyPhysics(phys.corrective_physics[1], st, phys.updates_per_env_step),
             LAMBDA r : IF r.raised THEN r
                        ELSE [raised |-> FALSE, state |-> [r.state EXCEPT !.agent = [i \in 1..Len(@) |-> Moved(@[i])]]])

(***************************************************************************)
(* SpecMaze: one avatar in a maze of three by three cells.  It starts at   *)
(* an open vertex or in the middle of an edge between two open vertices;   *)
(* at each of up to MaxMazeSteps steps the action space sets its velocity   *)
(* to a requested value and the physics steps.  The maze is the one that   *)
(* reset() inferred from the wall sprites.                                 *)
(***************************************************************************)
MaxSpeed == 5
MaxMazeSteps == 2

\* The mazes: a block in the middle, a corner corridor, a cross
Mazes ==
    { << <<0, 0, 0>>, <<0, 1, 0>>, <<0, 0, 0>> >>,
      << <<0, 1, 1>>, <<0, 1, 1>>, <<0, 0, 0>> >>,
      << <<1, 0, 1>>, <<0, 0, 0>>, <<1, 0, 1>> >> }

\* MazePhysics(max_speed=..., constant_speed=...) after reset
MazePhysicsConfigs(maze) ==
    { [maze |-> Maze(maze), max_speed |-> None, constant_speed |-> None],
      [maze |-> Maze(maze), max_speed |-> Q(1, 2), constant_speed |-> None],
      [maze |-> Maze(maze), max_speed |-> None, constant_speed |-> Q(1, 2)] }

\* The position of vertex (i, j)
VertexPosition(m, i, j) == <<Add(m.half_grid_side, Mul(I(i), m.grid_side)), Add(m.half_grid_side, Mul(I(j), m.grid_side))>>

\* The open vertices and the middles of the edges between two open vertices
OpenPositions(m) ==
    LET ij == (0..(m.maze_size - 1)) \X (0..(m.maze_size - 1))
        half == Q(1, 2)
    IN  {VertexPosition(m, v[1], v[2]) : v \in {w \in ij : OpenVertex(m, w[1], w[2])}}
        \cup {VAdd(VertexPosition(m, v[1], v[2]), <<m.half_grid_side, Zero>>) : v \in {w \in ij : OpenVertex(m, w[1], w[2]) /\ OpenVertex(m, w[1] + 1, w[2])}}
        \cup {VAdd(VertexPosition(m, v[1], v[2]), <<Zero, m.half_grid_side>>) : v \in {w \in ij : OpenVertex(m, w[1], w[2]) /\ OpenVertex(m, w[1], w[2] + 1)}}

\* The requested velocities, in half grid sides: along an axis and across
\* the axes, shorter and longer than the way to the next vertex
RequestedVelocities ==
    {<<Q(v[1], 6), Q(v[2], 6)>> : v \in
        { <<1, 0>>, <<-1, 0>>, <<0, 1>>, <<0, -1>>,
          <<MaxSpeed, 0>>, <<0 - MaxSpeed, 0>>, <<0, MaxSpeed>>, <<0, 0 - MaxSpeed>>,
          <<1, 1>>, <<MaxSpeed, 1>>, <<-1, MaxSpeed>>, <<MaxSpeed, 0 - MaxSpeed>>, <<-2, 0 - MaxSpeed>> }}

InitMaze ==
    /\ \E maze \in Mazes : \E mp \in MazePhysicsConfigs(maze) :
          /\ physics = [forces |-> <<>>, corrective_physics |-> <<mp>>, updates_per_env_step |-> 1]
          /\ \E position \in OpenPositions(mp.maze) : state = [agent |-> <<MazeSprite(position)>>]
    /\ ppc = [status |-> "ready", calls |-> 0, position |-> None, requested |-> None]
    /\ plog = <<>>
    /\ OnlyPhysics

MazeStep ==
    /\ ppc.status # "raised"
    /\ ppc.calls < MaxMazeSteps
    /\ \E velocity \in RequestedVelocities :
          \E r \in {MazePhysicsStep(physics, [state EXCEPT !.agent[1].velocity = velocity])} :
              /\ state' = r.state
              /\ ppc' = [status |-> IF r.raised THEN "raised" ELSE "stepped", calls |-> ppc.calls + 1, position |-> state.agent[1].position, requested |-> velocity]
    /\ UNCHANGED <<physics, plog>>
    /\ UNCHANGED exceptPhysics

NextMaze == MazeStep

SpecMaze == InitMaze /\ [][NextMaze]_vars

(***************************************************************************)
(* Properties of SpecMaze                                                  *)
(***************************************************************************)
TheMaze == physics.corrective_physics[1].maze
Avatar == state.agent[1]
CellIndices == 0..(TheMaze.maze_size - 1)

\* The coordinate lies on a line of the grid
OnLine(x) == \E n \in CellIndices : x = Add(TheMaze.half_grid_side, Mul(I(n), TheMaze.grid_side))

\* The cells that hold the coordinate, their borders included
CellsOf(x) == {n \in CellIndices : Le(Mul(I(n), TheMaze.grid_side), x) /\ Le(x, Mul(I(n + 1), TheMaze.grid_side))}

\* The position is inside the maze and touches no wall cell
InOpenCells(position) ==
    /\ CellsOf(position[1]) # {}
    /\ CellsOf(position[2]) # {}
    /\ \A i \in CellsOf(position[1]), j \in CellsOf(position[2]) : OpenVertex(TheMaze, i, j)

\* The step began at a vertex at which the requested velocity has, along
\* axis a, no component or a blocked neighbour
BlockedAt(a) ==
    LET i == CHOOSE n \in CellIndices : ppc.position[1] = Add(TheMaze.half_grid_side, Mul(I(n), TheMaze.grid_side))
        j == CHOOSE n \in CellIndices : ppc.position[2] = Add(TheMaze.half_grid_side, Mul(I(n), TheMaze.grid_side))
        d == SignQ(ppc.requested[a])[1]
    IN  /\ OnLine(ppc.position[1]) /\ OnLine(ppc.position[2])
        /\ d = 0 \/ ~OpenVertex(TheMaze, IF a = 1 THEN i + d ELSE i, IF a = 2 THEN j + d ELSE j)

\* C26: with MazePhysics as the last corrective physics and
\* updates_per_env_step = 1, an avatar that starts on the grid in an open
\* location is after every step still on the grid (at least one coordinate
\* on a grid line) and not inside a wall cell, for every requested velocity:
\* the clipped velocity is zero when both axes are blocked, and the error
\* 'Object is not on the maze grid' is never raised.
C26_AvatarStaysInMaze ==
    /\ ppc.status # "raised"
    /\ OnLine(Avatar.position[1]) \/ OnLine(Avatar.position[2])
    /\ InOpenCells(Avatar.position)
    /\ (ppc.status = "stepped" /\ BlockedAt(1) /\ BlockedAt(2)) =>
           /\ Avatar.velocity = VZero
           /\ Avatar.position = ppc.position

\* A second step whose requested velocity reached a vertex, found the way on
\* blocked and turned: the avatar moved along both axes
C26_Witness ==
    /\ ppc.status = "stepped"
    /\ ppc.calls = 2
    /\ Avatar.velocity[1] # Zero
    /\ Avatar.velocity[2] # Zero
    /\ Avatar.velocity # ppc.requested
    /\ ~OnLine(Avatar.position[1]) \/ ~OnLine(Avatar.position[2])

\* A step at a vertex with both axes blocked
C26_WitnessBlocked ==
    /\ ppc.status = "stepped"
    /\ BlockedAt(1) /\ BlockedAt(2)
    /\ ppc.requested[1] # Zero /\ ppc.requested[2] # Zero

====
